---- MODULE Spec2Model ----
(***************************************************************************)
(* A model of crun-vm, the OCI runtime wrapper that runs a VM in place of  *)
(* a container: the create pipeline (commands/create/mod.rs), the mount    *)
(* reclassifier, the libvirt domain generator and its XML overlay merge    *)
(* (commands/create/domain.rs), and delete (commands/delete.rs).           *)
(***************************************************************************)
EXTENDS Integers, Sequences, FiniteSets, TLC

VARIABLES
    input,  \* the container's original bundle: input spec id and custom options
    host,   \* host file system and mount table under the container's private dir
    inv,    \* the runtime invocation in progress (command, position, locals)
    hist,   \* what past invocations did (is_first_create results, saved configs)
    xf,     \* one run of the spec transformation on an arbitrary input spec
    mg,     \* one run of the XML overlay merge
    vc,     \* one run of get_vcpu_count
    fb,     \* one run of the first-boot config generators
    ut,     \* one run of find_single_file_in_dirs
    rt,     \* one run of main on an argument vector
    ex,     \* one run of exec's build_command
    co,     \* one run of CustomOptions::from_spec
    sp,     \* one run of set_up_security and adjust_container_rlimits_and_resources
    cc      \* create invocations of one container that run at the same time

vars == <<input, host, inv, hist, xf, mg, vc, fb, ut, rt, ex, co, sp, cc>>

-----------------------------------------------------------------------------
(* Bounds of the model *)

MaxMounts == 2        \* OCI mounts of a transformed input spec
MaxInvocations == 3   \* runtime invocations (create/delete) per container
MaxNodes == 2         \* child nodes of the root of a base or overlay domain XML
MaxCpus == 3          \* logical CPUs of the host
Bits == 20            \* width of u64 and i64
MaxEntries == 3       \* entries of a directory that is searched for the VM image
MaxUserEntries == 2   \* top-level entries of a user's cloud-init or Ignition config
MaxOptions == 2       \* custom options given on one command line
MaxRules == 2         \* seccomp syscall rules of an engine's profile
MaxRlimits == 3       \* rlimits of an engine's process config
MaxConcurrentCreates == 2   \* create invocations that run at the same time
MaxOverlays == 2      \* --merge-libvirt-xml options on one command line

-----------------------------------------------------------------------------
(* Paths: a path is the sequence of its components, "/" first when absolute *)

Abs(comps) == <<"/">> \o comps

\* Path::starts_with: component-wise prefix
StartsWith(p, q) ==
    /\ Len(q) <= Len(p)
    /\ SubSeq(p, 1, Len(q)) = q

Count(s, x) == Cardinality({i \in 1..Len(s) : s[i] = x})

-----------------------------------------------------------------------------
(* The host files that mounts, devices and --blockdev options refer to *)

FileType(source) ==
    CASE source = "/host/dir"  -> "dir"
      [] source = "/host/file" -> "file"
      [] source = "/dev/sdb"   -> "block"
      [] source = "/dev/null"  -> "char"
      [] OTHER                 -> "none"

-----------------------------------------------------------------------------
(* set_up_mounts *)

\* Faulty variant: /etc/hosts is missing from the list
TARGETS_TO_IGNORE_without_hosts ==
    { Abs(<<"etc", "hostname">>),
      Abs(<<"etc", "resolv.conf">>),
      Abs(<<"proc">>),
      Abs(<<"run", ".containerenv">>),
      Abs(<<"run", "secrets">>),
      Abs(<<"sys">>),
      Abs(<<"sys", "fs", "cgroup">>) }

TARGETS_TO_IGNORE ==
    { Abs(<<"etc", "hostname">>),
      Abs(<<"etc", "hosts">>),
      Abs(<<"etc", "resolv.conf">>),
      Abs(<<"proc">>),
      Abs(<<"run", ".containerenv">>),
      Abs(<<"run", "secrets">>),
      Abs(<<"sys">>),
      Abs(<<"sys", "fs", "cgroup">>) }

EmptyMounts == [virtiofs |-> <<>>, tmpfs |-> <<>>, block_device |-> <<>>]

VirtiofsPath(i) == Abs(<<"crun-vm", "mounts", "virtiofs", ToString(i)>>)
BlockPath(i) == <<"crun-vm", "mounts", "block", ToString(i)>>

IsReadonlyOption(options) ==
    \E i \in 1..Len(options) : options[i] = "ro" \/ options[i] = "readonly"

\* Some("bind") arm of the match
set_up_mounts_bind(st, oci_mount) ==
    LET meta == FileType(oci_mount.source) IN
    IF meta = "dir" THEN
        IF StartsWith(oci_mount.destination, Abs(<<"dev">>))
        THEN [st EXCEPT !.oci = Append(@, oci_mount)]
        ELSE LET path_in_container == VirtiofsPath(Len(st.mounts.virtiofs)) IN
             [st EXCEPT
                !.mounts.virtiofs = Append(@,
                    [path_in_container |-> path_in_container,
                     path_in_guest |-> oci_mount.destination]),
                !.oci = Append(@,
                    [oci_mount EXCEPT !.destination = path_in_container])]
    ELSE IF meta = "block" \/ meta = "file" THEN
        LET path_in_container == BlockPath(Len(st.mounts.block_device)) IN
        [st EXCEPT
            !.mounts.block_device = Append(@,
                [format |-> "raw",
                 is_regular_file |-> (meta = "file"),
                 path_in_container |-> path_in_container,
                 path_in_guest |-> oci_mount.destination,
                 readonly |-> IsReadonlyOption(oci_mount.options)]),
            !.oci = Append(@,
                [oci_mount EXCEPT !.destination = path_in_container])]
    ELSE [st EXCEPT !.ok = FALSE]

\* Faulty variant: a tmpfs mount under /dev is recorded for the guest as any other
set_up_mounts_tmpfs_dev_too(st, oci_mount) ==
    [st EXCEPT !.mounts.tmpfs = Append(@, [path_in_guest |-> oci_mount.destination])]

\* Faulty variant: the tmpfs mount is recorded for the guest and still mounted in the
\* container
set_up_mounts_tmpfs_also_mounted(st, oci_mount) ==
    IF StartsWith(oci_mount.destination, Abs(<<"dev">>))
    THEN [st EXCEPT !.oci = Append(@, oci_mount)]
    ELSE [st EXCEPT !.mounts.tmpfs = Append(@,
                [path_in_guest |-> oci_mount.destination]),
                    !.oci = Append(@, oci_mount)]

\* Some("tmpfs") arm of the match
set_up_mounts_tmpfs(st, oci_mount) ==
    IF StartsWith(oci_mount.destination, Abs(<<"dev">>))
    THEN [st EXCEPT !.oci = Append(@, oci_mount)]
    ELSE [st EXCEPT !.mounts.tmpfs = Append(@,
                [path_in_guest |-> oci_mount.destination])]

\* One iteration of the loop: st = [ok, oci (new_oci_mounts), mounts]
set_up_mounts_step(st, oci_mount) ==
    IF oci_mount.destination \in TARGETS_TO_IGNORE
    THEN [st EXCEPT !.oci = Append(@, oci_mount)]
    ELSE CASE oci_mount.typ = "bind"  -> set_up_mounts_bind(st, oci_mount)
           [] oci_mount.typ = "tmpfs" -> set_up_mounts_tmpfs(st, oci_mount)
           [] OTHER -> [st EXCEPT !.oci = Append(@, oci_mount)]

RECURSIVE set_up_mounts_loop(_, _)
set_up_mounts_loop(st, rest) ==
    IF rest = <<>> \/ ~st.ok THEN st
    ELSE set_up_mounts_loop(set_up_mounts_step(st, Head(rest)), Tail(rest))

\* Result: [ok, oci, mounts]; spec.set_mounts(new_oci_mounts) happens only when ok
set_up_mounts(spec_mounts, mounts) ==
    set_up_mounts_loop([ok |-> TRUE, oci |-> <<>>, mounts |-> mounts], spec_mounts)

-----------------------------------------------------------------------------
(* set_up_devices: block devices passed with --device are mknod'ed under the
   container root.  nodes is the set of paths under the container root where
   a device node exists; mknod(2) fails with EEXIST on an existing path. *)

\* One iteration of the loop: st = [ok, mounts, nodes]
set_up_devices_step(st, device) ==
    IF device.typ # "b" THEN st
    ELSE LET path_in_container == BlockPath(Len(st.mounts.block_device)) IN
         IF path_in_container \in st.nodes
         THEN [st EXCEPT !.ok = FALSE]
         ELSE [st EXCEPT
                 !.nodes = @ \cup {path_in_container},
                 !.mounts.block_device = Append(@,
                     [format |-> "raw",
                      is_regular_file |-> FALSE,
                      path_in_container |-> path_in_container,
                      path_in_guest |-> device.path,
                      readonly |-> ~device.mode_writable])]

RECURSIVE set_up_devices_loop(_, _)
set_up_devices_loop(st, rest) ==
    IF rest = <<>> \/ ~st.ok THEN st
    ELSE set_up_devices_loop(set_up_devices_step(st, Head(rest)), Tail(rest))

set_up_devices(devices, mounts, nodes) ==
    set_up_devices_loop([ok |-> TRUE, mounts |-> mounts, nodes |-> nodes], devices)

-----------------------------------------------------------------------------
(* set_up_blockdevs: --blockdev options become a bind mount into the container
   and a block-device entry for the guest *)

\* One iteration of the loop: st = [ok, oci (spec mounts), mounts]
set_up_blockdevs_step(st, blockdev) ==
    LET meta == FileType(blockdev.source) IN
    IF ~(meta = "file" \/ meta = "block")
    THEN [st EXCEPT !.ok = FALSE]
    ELSE LET path_in_container == BlockPath(Len(st.mounts.block_device)) IN
         [st EXCEPT
            !.oci = Append(@,
                [typ |-> "bind",
                 source |-> blockdev.source,
                 destination |-> path_in_container,
                 options |-> <<"bind", "rprivate">>]),
            !.mounts.block_device = Append(@,
                [format |-> blockdev.format,
                 is_regular_file |-> (meta = "file"),
                 path_in_container |-> path_in_container,
                 path_in_guest |-> blockdev.target,
                 readonly |-> FALSE])]

RECURSIVE set_up_blockdevs_loop(_, _)
set_up_blockdevs_loop(st, rest) ==
    IF rest = <<>> \/ ~st.ok THEN st
    ELSE set_up_blockdevs_loop(set_up_blockdevs_step(st, Head(rest)), Tail(rest))

set_up_blockdevs(spec_mounts, mounts, blockdevs) ==
    set_up_blockdevs_loop([ok |-> TRUE, oci |-> spec_mounts, mounts |-> mounts], blockdevs)

-----------------------------------------------------------------------------
(* generate: the disks and virtiofs shares of the libvirt domain XML *)

Alphabet ==
    << "a", "b", "c", "d", "e", "f", "g", "h", "i", "j", "k", "l", "m",
       "n", "o", "p", "q", "r", "s", "t", "u", "v", "w", "x", "y", "z" >>

\* Faulty variant: next_dev_index is never incremented
next_dev_name_stuck(i) == "vd" \o Alphabet[1]

\* format!("vd{}", ('a'..='z').cycle().nth(i).unwrap())
next_dev_name(i) == "vd" \o Alphabet[(i % Len(Alphabet)) + 1]

BlockSerial(i) == "crun-vm-block-" \o ToString(i)

\* The <disk> elements in emission order; next_dev_index counts the calls of
\* next_dev_name made so far.
generate_disks(vm_image_info, mounts) ==
    LET n == Len(mounts.block_device) IN
    <<[target |-> next_dev_name(0),
       source |-> vm_image_info.path,
       driver |-> vm_image_info.format,
       serial |-> "",
       readonly |-> FALSE]>>
    \o [k \in 1..n |->
          [target |-> next_dev_name(k),
           source |-> mounts.block_device[k].path_in_container,
           driver |-> mounts.block_device[k].format,
           serial |-> BlockSerial(k - 1),
           readonly |-> mounts.block_device[k].readonly]]
    \o <<[target |-> next_dev_name(n + 1),
          source |-> Abs(<<"crun-vm", "first-boot", "cloud-init.iso">>),
          driver |-> "",
          serial |-> "",
          readonly |-> FALSE]>>

\* Faulty variant: the tags count from 1
generate_filesystems_from_one(mounts) ==
    [i \in 1..Len(mounts.virtiofs) |->
        [source |-> mounts.virtiofs[i].path_in_container,
         target |-> "virtiofs-" \o ToString(i)]]

generate_filesystems(mounts) ==
    [i \in 1..Len(mounts.virtiofs) |->
        [source |-> mounts.virtiofs[i].path_in_container,
         target |-> "virtiofs-" \o ToString(i - 1)]]

-----------------------------------------------------------------------------
(* The spec transformation of create (set_up_mounts .. set_up_libvirt_domain_xml)
   as one function of the input spec, for a first create on a fresh root *)

EphemeralImageInfo ==
    [path |-> Abs(<<"crun-vm", "image-overlay.qcow2">>), format |-> "qcow2"]

transform(spec) ==
    LET m == set_up_mounts(spec.mounts, EmptyMounts)
        d == set_up_devices(spec.devices, m.mounts, {})
        b == set_up_blockdevs(m.oci, d.mounts, spec.blockdev)
    IN  IF ~m.ok THEN [ok |-> FALSE, failed |-> "set_up_mounts"]
        ELSE IF ~d.ok THEN [ok |-> FALSE, failed |-> "set_up_devices"]
        ELSE IF ~b.ok THEN [ok |-> FALSE, failed |-> "set_up_blockdevs"]
        ELSE [ok |-> TRUE,
              failed |-> "",
              new_oci_mounts |-> m.oci,
              set_up_mounts_result |-> m.mounts,
              spec_mounts |-> b.oci,
              mounts |-> b.mounts,
              disks |-> generate_disks(EphemeralImageInfo, b.mounts),
              filesystems |-> generate_filesystems(b.mounts)]

\* The input specs the transformation is run on
XfDestinations ==
    { Abs(<<"proc">>), Abs(<<"etc", "hosts">>), Abs(<<"dev">>),
      Abs(<<"dev", "foo">>), Abs(<<"mnt", "data">>) }

XfMounts ==
    { [typ |-> "bind", source |-> src, destination |-> dst, options |-> <<"bind">>] :
        src \in {"/host/dir", "/host/file", "/dev/sdb", "/dev/null"},
        dst \in XfDestinations }
    \cup
    { [typ |-> "bind", source |-> "/host/file", destination |-> Abs(<<"mnt", "data">>),
       options |-> <<"bind", "ro">>] }
    \cup
    { [typ |-> typ, source |-> typ, destination |-> dst, options |-> <<>>] :
        typ \in {"tmpfs", "proc"}, dst \in XfDestinations }

XfDevices ==
    { <<>>,
      <<[typ |-> "b", path |-> Abs(<<"dev", "sdx">>), mode_writable |-> TRUE]>>,
      <<[typ |-> "c", path |-> Abs(<<"dev", "ttyX">>), mode_writable |-> TRUE],
        [typ |-> "b", path |-> Abs(<<"dev", "sdy">>), mode_writable |-> FALSE]>> }

XfBlockdevs ==
    { <<>>,
      <<[source |-> "/host/file", target |-> Abs(<<"dev", "vol">>), format |-> "qcow2"]>> }

XfIdle == [pc |-> "idle"]

XfInit ==
    \E devices \in XfDevices, blockdev \in XfBlockdevs :
        xf = [pc |-> "input",
              spec |-> [mounts |-> <<>>, devices |-> devices, blockdev |-> blockdev]]

\* The engine declares one more mount in the bundle's config.json
XfAddMount ==
    /\ xf.pc = "input"
    /\ Len(xf.spec.mounts) < MaxMounts
    /\ \E m \in XfMounts : xf' = [xf EXCEPT !.spec.mounts = Append(@, m)]
    /\ UNCHANGED <<input, host, inv, hist, mg, vc, fb, ut, rt, ex, co, sp, cc>>

\* create transforms the spec
XfCreate ==
    /\ xf.pc = "input"
    /\ xf' = [pc |-> "done", spec |-> xf.spec, out |-> transform(xf.spec)]
    /\ UNCHANGED <<input, host, inv, hist, mg, vc, fb, ut, rt, ex, co, sp, cc>>

-----------------------------------------------------------------------------
(* The container life cycle: the bundles create is invoked on *)

ProcMount ==
    [typ |-> "proc", source |-> "proc", destination |-> Abs(<<"proc">>), options |-> <<>>]
DirMount ==
    [typ |-> "bind", source |-> "/host/dir", destination |-> Abs(<<"mnt", "data">>),
     options |-> <<"bind">>]
FileMount ==
    [typ |-> "bind", source |-> "/host/file", destination |-> Abs(<<"mnt", "disk">>),
     options |-> <<"bind", "ro">>]
TmpfsMount ==
    [typ |-> "tmpfs", source |-> "tmpfs", destination |-> Abs(<<"tmp">>), options |-> <<>>]
BlockMount ==
    [typ |-> "bind", source |-> "/dev/sdb", destination |-> Abs(<<"mnt", "blk">>),
     options |-> <<"bind">>]

\* The original config.json of the bundle, as the engine writes it
InputSpecs ==
    { [mounts |-> <<ProcMount, DirMount>>, devices |-> <<>>, blockdev |-> <<>>,
       cap_sys_admin |-> FALSE],
      [mounts |-> <<FileMount, TmpfsMount>>, devices |-> <<>>,
       blockdev |-> <<[source |-> "/dev/sdb", target |-> Abs(<<"dev", "vol">>),
                       format |-> "raw"]>>,
       cap_sys_admin |-> FALSE],
      [mounts |-> <<ProcMount>>,
       devices |-> <<[typ |-> "b", path |-> Abs(<<"dev", "sdx">>), mode_writable |-> TRUE]>>,
       blockdev |-> <<>>, cap_sys_admin |-> FALSE],
      [mounts |-> <<ProcMount>>, devices |-> <<>>, blockdev |-> <<>>,
       cap_sys_admin |-> TRUE],
      [mounts |-> <<ProcMount, BlockMount>>, devices |-> <<>>, blockdev |-> <<>>,
       cap_sys_admin |-> FALSE] }

MirrorImagePath == Abs(<<"crun-vm", "image", "image">>)
OverlayImagePath == Abs(<<"crun-vm", "image-overlay.qcow2">>)

NoSpec == [root |-> "", args |-> <<>>, mounts |-> <<>>, devices |-> <<>>,
           blockdev |-> <<>>, cap_sys_admin |-> FALSE, cgroup_devices |-> <<>>,
           cap_sys_chroot |-> FALSE, resources_cleared |-> FALSE]

InvIdle ==
    [cmd |-> "none", pc |-> "idle", spec |-> NoSpec, is_first_create |-> FALSE,
     vm_image_info |-> <<>>, mounts |-> EmptyMounts, done |-> {},
     crun_invoked |-> FALSE, error |-> "", root_path |-> FALSE,
     mounted_at_crun |-> FALSE]

HostInit ==
    [create_ran |-> FALSE,      \* root/crun-vm/create-ran exists
     hard_link |-> FALSE,       \* priv/image/image is a hard link to the user's image
     image_dir |-> <<>>,        \* overlay mounts stacked on root/crun-vm/image
     image_file |-> <<>>,       \* bind mounts stacked on root/crun-vm/image/image
     ssh |-> <<>>,              \* overlay mounts stacked on root/root/.ssh
     nodes |-> {},              \* device nodes under the container root
     overlay_image |-> 0,       \* runs of create_overlay_vm_image
     ssh_keygen |-> 0,          \* runs of ssh-keygen
     first_boot |-> 0,          \* runs of set_up_first_boot_config
     domain_xml |-> 0,          \* runs of set_up_libvirt_domain_xml
     domain |-> <<>>,           \* root/crun-vm/domain.xml, when it exists
     config |-> <<>>,           \* the bundle's config.json as last saved by create
     container |-> FALSE,       \* crun knows the container
     orig_image_written |-> FALSE,  \* the user's image file was written to
     overlay_written |-> FALSE]     \* image-overlay.qcow2 was written to

HistInit == [invocations |-> 0, first_create |-> <<>>, configs |-> <<>>]

LcInit ==
    /\ \E spec \in InputSpecs, persistent \in BOOLEAN, is_bootc \in BOOLEAN,
          use_user_key_pair \in BOOLEAN :
          input = [spec |-> spec, persistent |-> persistent, is_bootc |-> is_bootc,
                   use_user_key_pair |-> use_user_key_pair]
    /\ host = HostInit
    /\ inv = InvIdle
    /\ hist = HistInit

LcIdle ==
    /\ input = [spec |-> NoSpec]
    /\ host = HostInit
    /\ inv = InvIdle
    /\ hist = HistInit

lcVars == <<input, host, inv, hist>>

-----------------------------------------------------------------------------
(* Mount table of the host: is_mountpoint compares st_dev of a path and of its
   parent.  Device 0 is the host file system; the k-th overlay stacked on the
   image directory is a file system of its own, device k.  A bind mount shows
   the device of the file system its source lives on. *)

DevOfImageDir(h) == Len(h.image_dir)

DevOfImageFile(h) ==
    IF h.image_file # <<>> THEN h.image_file[Len(h.image_file)].dev
    ELSE DevOfImageDir(h)

ImageFileExists(h) ==
    h.image_file # <<>> \/ (h.hard_link /\ h.image_dir # <<>>)

\* is_mountpoint(root/crun-vm/image); its parent root/crun-vm is on device 0
is_mountpoint_image_dir(h) == DevOfImageDir(h) # 0

\* is_mountpoint(root/crun-vm/image/image); NotFound gives false
is_mountpoint_image_file(h) ==
    ImageFileExists(h) /\ DevOfImageFile(h) # DevOfImageDir(h)

\* mount("overlay", to, "overlay", 0, options) on the image directory
bind_mount_dir_with_different_context(stack, from, scratch_dir, read_only) ==
    Append(stack,
        IF read_only
        THEN [lowerdir |-> <<scratch_dir, from>>, upperdir |-> <<>>]
        ELSE [lowerdir |-> <<scratch_dir \o "/layer">>, upperdir |-> <<from>>])

\* mount(from, to, NULL, MS_BIND, NULL) of the image file onto itself
bind_mount_file(h) ==
    [h EXCEPT !.image_file = Append(@, [dev |-> DevOfImageDir(h)])]

\* umount2(path, MNT_DETACH) detaches the mount on top of path with all the
\* mounts below it
umount2_image_file(h) ==
    [h EXCEPT !.image_file = SubSeq(@, 1, Len(@) - 1)]

umount2_image_dir(h) ==
    [h EXCEPT !.image_dir = SubSeq(@, 1, Len(@) - 1),
              !.image_file = SelectSeq(@, LAMBDA l : l.dev < Len(h.image_dir))]

RECURSIVE ensure_unmounted_image_file(_)
ensure_unmounted_image_file(h) ==
    IF is_mountpoint_image_file(h)
    THEN ensure_unmounted_image_file(umount2_image_file(h))
    ELSE h

RECURSIVE ensure_unmounted_image_dir(_)
ensure_unmounted_image_dir(h) ==
    IF is_mountpoint_image_dir(h)
    THEN ensure_unmounted_image_dir(umount2_image_dir(h))
    ELSE h

-----------------------------------------------------------------------------
(* create *)

\* Faulty variant: the container is created before the rewritten spec is saved
CreateStages_crun_before_save ==
    << "load", "ensure_unprivileged", "custom_options", "is_bootc_container",
       "priv_dir", "set_up_container_root", "is_first_create", "set_up_vm_image",
       "set_up_mounts", "set_up_devices", "set_up_blockdevs", "set_up_extra",
       "set_up_security", "set_up_ssh_key_pair", "set_up_first_boot_config",
       "set_up_libvirt_domain_xml", "adjust_rlimits", "crun", "save",
       "bootc_prepare" >>

\* The stages of create in program order; each returns through `?` on failure
CreateStages ==
    << "load", "ensure_unprivileged", "custom_options", "is_bootc_container",
       "priv_dir", "set_up_container_root", "is_first_create", "set_up_vm_image",
       "set_up_mounts", "set_up_devices", "set_up_blockdevs", "set_up_extra",
       "set_up_security", "set_up_ssh_key_pair", "set_up_first_boot_config",
       "set_up_libvirt_domain_xml", "adjust_rlimits", "save", "crun",
       "bootc_prepare" >>

StageIndex(stage) == CHOOSE i \in 1..Len(CreateStages) : CreateStages[i] = stage

NextCreateStage(stage) ==
    IF StageIndex(stage) = Len(CreateStages) THEN "done"
    ELSE CreateStages[StageIndex(stage) + 1]

\* The stage returned Ok: go on with the next one
Ok(i, stage) == [i EXCEPT !.pc = NextCreateStage(stage), !.done = @ \cup {stage}]

\* The stage returned Err: create returns it at once
Err(i, error) == [i EXCEPT !.pc = "failed", !.error = error]

AtCreate(stage) == inv.cmd = "create" /\ inv.pc = stage

BeginCreate ==
    /\ inv.cmd = "none"
    /\ hist.invocations < MaxInvocations
    /\ inv' = [InvIdle EXCEPT !.cmd = "create", !.pc = "load"]
    /\ hist' = [hist EXCEPT !.invocations = @ + 1]
    /\ UNCHANGED <<input, host, xf, mg, vc, fb, ut, rt, ex, co, sp, cc>>

\* Spec::load(&config_path)
CreateLoad ==
    /\ AtCreate("load")
    /\ \E ok \in BOOLEAN :
        inv' = IF ok
               THEN [Ok(inv, "load") EXCEPT
                       !.spec = [NoSpec EXCEPT
                                   !.root = "rootfs",
                                   !.args = <<"--custom-options">>,
                                   !.mounts = input.spec.mounts,
                                   !.devices = input.spec.devices,
                                   !.blockdev = input.spec.blockdev,
                                   !.cap_sys_admin = input.spec.cap_sys_admin]]
               ELSE Err(inv, "env")
    /\ UNCHANGED <<input, host, hist, xf, mg, vc, fb, ut, rt, ex, co, sp, cc>>

ensure_unprivileged(spec) == ~spec.cap_sys_admin

CreateEnsureUnprivileged ==
    /\ AtCreate("ensure_unprivileged")
    /\ inv' = IF ensure_unprivileged(inv.spec)
              THEN Ok(inv, "ensure_unprivileged")
              ELSE Err(inv, "crun-vm is incompatible with privileged containers")
    /\ UNCHANGED <<input, host, hist, xf, mg, vc, fb, ut, rt, ex, co, sp, cc>>

\* canonicalize the root, RuntimeEnv::current, CustomOptions::from_spec
CreateCustomOptions ==
    /\ AtCreate("custom_options")
    /\ \E ok \in BOOLEAN :
        inv' = IF ok THEN Ok(inv, "custom_options") ELSE Err(inv, "env")
    /\ UNCHANGED <<input, host, hist, xf, mg, vc, fb, ut, rt, ex, co, sp, cc>>

CreateIsBootcContainer ==
    /\ AtCreate("is_bootc_container")
    /\ \E ok \in BOOLEAN :
        inv' = IF ok THEN Ok(inv, "is_bootc_container") ELSE Err(inv, "env")
    /\ UNCHANGED <<input, host, hist, xf, mg, vc, fb, ut, rt, ex, co, sp, cc>>

\* fs::create_dir_all(&priv_dir_path), set_file_context
CreatePrivDir ==
    /\ AtCreate("priv_dir")
    /\ \E ok \in BOOLEAN :
        inv' = IF ok THEN Ok(inv, "priv_dir") ELSE Err(inv, "env")
    /\ UNCHANGED <<input, host, hist, xf, mg, vc, fb, ut, rt, ex, co, sp, cc>>

CreateSetUpContainerRoot ==
    /\ AtCreate("set_up_container_root")
    /\ \E ok \in BOOLEAN :
        inv' = IF ok
               THEN [Ok(inv, "set_up_container_root") EXCEPT
                       !.spec.root = "priv/root",
                       !.spec.args = <<"/crun-vm/entrypoint.sh",
                                       IF input.is_bootc THEN "1" ELSE "0">>]
               ELSE Err(inv, "env")
    /\ UNCHANGED <<input, host, hist, xf, mg, vc, fb, ut, rt, ex, co, sp, cc>>

\* Faulty variant: the file is opened with create instead of create_new
is_first_create_not_exclusive(h) == TRUE

\* File::options().create_new(true).open(path): None => true,
\* AlreadyExists => false
is_first_create(h) == ~h.create_ran

CreateIsFirstCreate ==
    /\ AtCreate("is_first_create")
    /\ \/ /\ inv' = [Ok(inv, "is_first_create") EXCEPT
                        !.is_first_create = is_first_create(host)]
          /\ host' = [host EXCEPT !.create_ran = TRUE]
          /\ hist' = [hist EXCEPT !.first_create = Append(@,
                        [result |-> is_first_create(host), existed |-> host.create_ran])]
       \/ \* any other error of open()
          /\ inv' = Err(inv, "env")
          /\ UNCHANGED <<host, hist>>
    /\ UNCHANGED <<input, xf, mg, vc, fb, ut, rt, ex, co, sp, cc>>

\* Faulty variant: the overlay always gets the image directory as its upper layer
image_dir_read_only_never(persistent) == FALSE

\* The read_only argument of bind_mount_dir_with_different_context for the
\* image directory: false under --persistent, true otherwise
image_dir_read_only(persistent) == ~persistent

\* The VmImageInfo set_up_vm_image returns: the disk the domain XML gives the guest
vm_image_info(persistent, is_bootc) ==
    IF is_bootc THEN [path |-> MirrorImagePath, format |-> "raw"]
    ELSE IF persistent THEN [path |-> MirrorImagePath, format |-> "user"]
    ELSE [path |-> OverlayImagePath, format |-> "qcow2"]

\* set_up_vm_image up to the operation fail_at, which fails ("none": all succeed).
\* Result: [ok, host]
set_up_vm_image(h, persistent, first_create, is_bootc, fail_at) ==
    IF is_bootc THEN [ok |-> TRUE, host |-> h]
    ELSE IF fail_at = "find_single_file_in_dirs" THEN [ok |-> FALSE, host |-> h]
    ELSE
    LET h1 == [h EXCEPT !.hard_link = TRUE]
        mount_dir == ~is_mountpoint_image_dir(h1)
        h2 == IF mount_dir
              THEN [h1 EXCEPT !.image_dir =
                      bind_mount_dir_with_different_context(
                          @, "priv/image", "priv/scratch-image",
                          image_dir_read_only(persistent))]
              ELSE h1
    IN  IF mount_dir /\ fail_at = "bind_mount_dir" THEN [ok |-> FALSE, host |-> h1]
        ELSE IF persistent THEN
            IF fail_at = "bind_mount_file" THEN [ok |-> FALSE, host |-> h2]
            ELSE IF fail_at = "VmImageInfo::of"
                 THEN [ok |-> FALSE, host |-> bind_mount_file(h2)]
                 ELSE [ok |-> TRUE, host |-> bind_mount_file(h2)]
        ELSE
            IF fail_at = "VmImageInfo::of" THEN [ok |-> FALSE, host |-> h2]
            ELSE IF ~first_create THEN [ok |-> TRUE, host |-> h2]
            ELSE IF fail_at = "create_overlay_vm_image" THEN [ok |-> FALSE, host |-> h2]
            ELSE [ok |-> TRUE, host |-> [h2 EXCEPT !.overlay_image = @ + 1]]

VmImageFailures ==
    { "none", "find_single_file_in_dirs", "bind_mount_dir", "bind_mount_file",
      "VmImageInfo::of", "create_overlay_vm_image" }

CreateSetUpVmImage ==
    /\ AtCreate("set_up_vm_image")
    /\ \E fail_at \in VmImageFailures :
        LET r == set_up_vm_image(host, input.persistent, inv.is_first_create,
                                 input.is_bootc, fail_at)
        IN  /\ host' = r.host
            /\ inv' = IF r.ok
                      THEN [Ok(inv, "set_up_vm_image") EXCEPT
                              !.vm_image_info =
                                  <<vm_image_info(input.persistent, input.is_bootc)>>]
                      ELSE Err(inv, "env")
    /\ UNCHANGED <<input, hist, xf, mg, vc, fb, ut, rt, ex, co, sp, cc>>

CreateSetUpMounts ==
    /\ AtCreate("set_up_mounts")
    /\ LET r == set_up_mounts(inv.spec.mounts, EmptyMounts) IN
        inv' = IF r.ok
               THEN [Ok(inv, "set_up_mounts") EXCEPT
                       !.spec.mounts = r.oci, !.mounts = r.mounts]
               ELSE Err(inv, "can only bind mount regular files, directories, and block devices")
    /\ UNCHANGED <<input, host, hist, xf, mg, vc, fb, ut, rt, ex, co, sp, cc>>

CreateSetUpDevices ==
    /\ AtCreate("set_up_devices")
    /\ LET r == set_up_devices(inv.spec.devices, inv.mounts, host.nodes) IN
        /\ host' = [host EXCEPT !.nodes = r.nodes]
        /\ inv' = IF r.ok
                  THEN [Ok(inv, "set_up_devices") EXCEPT !.mounts = r.mounts]
                  ELSE Err(inv, "mknod: EEXIST")
    /\ UNCHANGED <<input, hist, xf, mg, vc, fb, ut, rt, ex, co, sp, cc>>

CreateSetUpBlockdevs ==
    /\ AtCreate("set_up_blockdevs")
    /\ LET r == set_up_blockdevs(inv.spec.mounts, inv.mounts, inv.spec.blockdev) IN
        inv' = IF r.ok
               THEN [Ok(inv, "set_up_blockdevs") EXCEPT
                       !.spec.mounts = r.oci, !.mounts = r.mounts]
               ELSE Err(inv, "blockdev source must be a regular file or a block device")
    /\ UNCHANGED <<input, host, hist, xf, mg, vc, fb, ut, rt, ex, co, sp, cc>>

ExtraMount(path) ==
    [typ |-> "bind", source |-> path, destination |-> Abs(<<path>>),
     options |-> <<"bind", "rprivate", "ro">>]

\* set_up_extra_container_mounts_and_devices, on a host with /dev/kvm and an
\* empty /dev/vfio
set_up_extra_container_mounts_and_devices(spec) ==
    [spec EXCEPT
        !.mounts = @ \o <<ExtraMount("bin"), ExtraMount("dev/log"),
                           ExtraMount("etc/pam.d"), ExtraMount("lib"),
                           ExtraMount("lib64"), ExtraMount("usr"),
                           [ExtraMount("usr/bin/pkttyagent") EXCEPT !.source = "/dev/null"],
                           ExtraMount("dev/kvm")>>,
        !.cgroup_devices = Append(@, [allow |-> TRUE, typ |-> "c", path |-> "/dev/kvm"])]

CreateSetUpExtra ==
    /\ AtCreate("set_up_extra")
    /\ \E ok \in BOOLEAN :
        inv' = IF ok
               THEN [Ok(inv, "set_up_extra") EXCEPT
                       !.spec = set_up_extra_container_mounts_and_devices(@)]
               ELSE Err(inv, "env")
    /\ UNCHANGED <<input, host, hist, xf, mg, vc, fb, ut, rt, ex, co, sp, cc>>

CreateSetUpSecurity ==
    /\ AtCreate("set_up_security")
    /\ inv' = [Ok(inv, "set_up_security") EXCEPT !.spec.cap_sys_chroot = TRUE]
    /\ UNCHANGED <<input, host, hist, xf, mg, vc, fb, ut, rt, ex, co, sp, cc>>

\* set_up_ssh_key_pair up to the operation fail_at.  The final read of
\* root/.ssh/id_rsa.pub finds a key when the user's ~/.ssh is mounted there or
\* ssh-keygen has run.  Result: [ok, host, error]
set_up_ssh_key_pair(h, use_user_key_pair, first_create, fail_at) ==
    LET h1 == IF use_user_key_pair
              THEN [h EXCEPT !.ssh = bind_mount_dir_with_different_context(
                                        @, "home/.ssh", "priv/scratch-ssh", TRUE)]
              ELSE IF first_create
                   THEN [h EXCEPT !.ssh_keygen = @ + 1]
                   ELSE h
    IN  IF use_user_key_pair /\ fail_at = "bind_mount_dir"
            THEN [ok |-> FALSE, host |-> h, error |-> "env"]
        ELSE IF ~use_user_key_pair /\ first_create /\ fail_at = "ssh-keygen"
            THEN [ok |-> FALSE, host |-> h, error |-> "env"]
        ELSE IF h1.ssh = <<>> /\ h1.ssh_keygen = 0
            THEN [ok |-> FALSE, host |-> h1, error |-> "id_rsa.pub: NotFound"]
        ELSE IF fail_at = "read_to_string"
            THEN [ok |-> FALSE, host |-> h1, error |-> "env"]
        ELSE [ok |-> TRUE, host |-> h1, error |-> ""]

SshFailures == { "none", "bind_mount_dir", "ssh-keygen", "read_to_string" }

CreateSetUpSshKeyPair ==
    /\ AtCreate("set_up_ssh_key_pair")
    /\ \E fail_at \in SshFailures :
        LET r == set_up_ssh_key_pair(host, input.use_user_key_pair,
                                     inv.is_first_create, fail_at)
        IN  /\ host' = r.host
            /\ inv' = IF r.ok THEN Ok(inv, "set_up_ssh_key_pair") ELSE Err(inv, r.error)
    /\ UNCHANGED <<input, hist, xf, mg, vc, fb, ut, rt, ex, co, sp, cc>>

\* if is_first_create { set_up_first_boot_config(..)?; .. }
CreateSetUpFirstBootConfig ==
    /\ AtCreate("set_up_first_boot_config")
    /\ IF inv.is_first_create
       THEN \E ok \in BOOLEAN :
            IF ok
            THEN /\ host' = [host EXCEPT !.first_boot = @ + 1]
                 /\ inv' = Ok(inv, "set_up_first_boot_config")
            ELSE /\ host' = host
                 /\ inv' = Err(inv, "env")
       ELSE /\ host' = host
            /\ inv' = Ok(inv, "set_up_first_boot_config")
    /\ UNCHANGED <<input, hist, xf, mg, vc, fb, ut, rt, ex, co, sp, cc>>

\* if is_first_create { ..; set_up_libvirt_domain_xml(..)?; }
CreateSetUpLibvirtDomainXml ==
    /\ AtCreate("set_up_libvirt_domain_xml")
    /\ IF inv.is_first_create
       THEN \E ok \in BOOLEAN :
            IF ok
            THEN /\ host' = [host EXCEPT
                        !.domain_xml = @ + 1,
                        !.domain = <<[disks |-> generate_disks(inv.vm_image_info[1],
                                                               inv.mounts),
                                      filesystems |-> generate_filesystems(inv.mounts)]>>]
                 /\ inv' = Ok(inv, "set_up_libvirt_domain_xml")
            ELSE /\ host' = host
                 /\ inv' = Err(inv, "env")
       ELSE /\ host' = host
            /\ inv' = Ok(inv, "set_up_libvirt_domain_xml")
    /\ UNCHANGED <<input, hist, xf, mg, vc, fb, ut, rt, ex, co, sp, cc>>

CreateAdjustRlimits ==
    /\ AtCreate("adjust_rlimits")
    /\ inv' = [Ok(inv, "adjust_rlimits") EXCEPT !.spec.resources_cleared = TRUE]
    /\ UNCHANGED <<input, host, hist, xf, mg, vc, fb, ut, rt, ex, co, sp, cc>>

\* spec.save(&config_path), spec.save(root/crun-vm/config.json)
CreateSave ==
    /\ AtCreate("save")
    /\ \E ok \in BOOLEAN :
        IF ok
        THEN /\ host' = [host EXCEPT !.config = <<inv.spec>>]
             /\ inv' = Ok(inv, "save")
        ELSE /\ host' = host
             /\ inv' = Err(inv, "env")
    /\ UNCHANGED <<input, hist, xf, mg, vc, fb, ut, rt, ex, co, sp, cc>>

\* crun(raw_args): the underlying runtime creates the container, or fails
CreateCrun ==
    /\ AtCreate("crun")
    /\ \E ok \in BOOLEAN :
        IF ok
        THEN /\ host' = [host EXCEPT !.container = TRUE]
             /\ inv' = [Ok(inv, "crun") EXCEPT !.crun_invoked = TRUE]
        ELSE /\ host' = host
             /\ inv' = [Err(inv, "env") EXCEPT !.crun_invoked = TRUE]
    /\ UNCHANGED <<input, hist, xf, mg, vc, fb, ut, rt, ex, co, sp, cc>>

\* if is_first_create && is_bootc_container { spawn prepare.sh }; Ok(())
CreateBootcPrepare ==
    /\ AtCreate("bootc_prepare")
    /\ \E ok \in BOOLEAN :
        IF ok \/ ~(inv.is_first_create /\ input.is_bootc)
        THEN /\ inv' = Ok(inv, "bootc_prepare")
             /\ hist' = [hist EXCEPT !.configs = Append(@, host.config[1])]
        ELSE /\ inv' = Err(inv, "env")
             /\ hist' = hist
    /\ UNCHANGED <<input, host, xf, mg, vc, fb, ut, rt, ex, co, sp, cc>>

\* The runtime process exits
Return ==
    /\ inv.pc \in {"done", "failed"}
    /\ inv' = InvIdle
    /\ UNCHANGED <<input, host, hist, xf, mg, vc, fb, ut, rt, ex, co, sp, cc>>

-----------------------------------------------------------------------------
(* delete *)

\* Faulty variant: the mounts are cleaned up before the container is deleted
DeleteStages_unmount_first ==
    << "get_root_path", "ensure_unmounted_image_file",
       "ensure_unmounted_image_dir", "crun" >>

\* The steps of delete in program order
DeleteStages ==
    << "get_root_path", "crun", "ensure_unmounted_image_file",
       "ensure_unmounted_image_dir" >>

NextDeleteStage(stage) ==
    LET i == CHOOSE k \in 1..Len(DeleteStages) : DeleteStages[k] = stage IN
    IF i = Len(DeleteStages) THEN "done" ELSE DeleteStages[i + 1]

DeleteOk(i, stage) == [i EXCEPT !.pc = NextDeleteStage(stage), !.done = @ \cup {stage}]

AtDelete(stage) == inv.cmd = "delete" /\ inv.pc = stage

BeginDelete ==
    /\ inv.cmd = "none"
    /\ hist.invocations < MaxInvocations
    /\ inv' = [InvIdle EXCEPT !.cmd = "delete", !.pc = DeleteStages[1]]
    /\ hist' = [hist EXCEPT !.invocations = @ + 1]
    /\ UNCHANGED <<input, host, xf, mg, vc, fb, ut, rt, ex, co, sp, cc>>

\* let root_path = get_root_path(&args.container_id).ok(): `crun state` knows
\* the root of an existing container; errors are ignored
DeleteGetRootPath ==
    /\ AtDelete("get_root_path")
    /\ \E ok \in BOOLEAN :
        inv' = [DeleteOk(inv, "get_root_path") EXCEPT !.root_path = host.container /\ ok]
    /\ UNCHANGED <<input, host, hist, xf, mg, vc, fb, ut, rt, ex, co, sp, cc>>

\* crun(raw_args)?: the underlying runtime deletes the container, or fails
DeleteCrun ==
    /\ AtDelete("crun")
    /\ \E ok \in BOOLEAN :
        LET i == [inv EXCEPT
                    !.crun_invoked = TRUE,
                    !.mounted_at_crun = is_mountpoint_image_dir(host)
                                        \/ is_mountpoint_image_file(host)]
        IN  IF ok
            THEN /\ host' = [host EXCEPT !.container = FALSE]
                 /\ inv' = DeleteOk(i, "crun")
            ELSE /\ host' = host
                 /\ inv' = Err(i, "env")
    /\ UNCHANGED <<input, hist, xf, mg, vc, fb, ut, rt, ex, co, sp, cc>>

\* if let Some(root_path) = root_path { ensure_unmounted(image_file_path)?; .. }
DeleteEnsureUnmountedImageFile ==
    /\ AtDelete("ensure_unmounted_image_file")
    /\ IF inv.root_path
       THEN \E ok \in BOOLEAN :
            IF ok
            THEN /\ host' = ensure_unmounted_image_file(host)
                 /\ inv' = DeleteOk(inv, "ensure_unmounted_image_file")
            ELSE /\ host' = host
                 /\ inv' = Err(inv, "env")
       ELSE /\ host' = host
            /\ inv' = [inv EXCEPT !.pc = "done"]
    /\ UNCHANGED <<input, hist, xf, mg, vc, fb, ut, rt, ex, co, sp, cc>>

\* .. ensure_unmounted(image_dir_path)?; }
DeleteEnsureUnmountedImageDir ==
    /\ AtDelete("ensure_unmounted_image_dir")
    /\ \E ok \in BOOLEAN :
        IF ok
        THEN /\ host' = ensure_unmounted_image_dir(host)
             /\ inv' = DeleteOk(inv, "ensure_unmounted_image_dir")
        ELSE /\ host' = host
             /\ inv' = Err(inv, "env")
    /\ UNCHANGED <<input, hist, xf, mg, vc, fb, ut, rt, ex, co, sp, cc>>

-----------------------------------------------------------------------------
(* The guest and the container's processes write to the VM's disk *)

\* A write to /crun-vm/image/image in the container goes through the overlay
\* mounted on its directory: refused without an upper layer, else applied to
\* the file in the upper directory, the hard link to the user's image
write_mirror_image(h) ==
    IF h.image_dir = <<>> THEN h
    ELSE IF h.image_dir[Len(h.image_dir)].upperdir = <<>> THEN h
    ELSE [h EXCEPT !.orig_image_written = h.hard_link]

\* A write of the guest to its first disk, the first <disk> of domain.xml
write_guest_disk(h) ==
    IF h.domain[1].disks[1].source = OverlayImagePath
    THEN [h EXCEPT !.overlay_written = TRUE]
    ELSE write_mirror_image(h)

GuestWrite ==
    /\ inv.cmd = "none"
    /\ host.container
    /\ host.domain # <<>>
    /\ host' = write_guest_disk(host)
    /\ host' # host
    /\ UNCHANGED <<input, inv, hist, xf, mg, vc, fb, ut, rt, ex, co, sp, cc>>

ContainerWrite ==
    /\ inv.cmd = "none"
    /\ host.container
    /\ host' = write_mirror_image(host)
    /\ host' # host
    /\ UNCHANGED <<input, inv, hist, xf, mg, vc, fb, ut, rt, ex, co, sp, cc>>

-----------------------------------------------------------------------------
(* merge_overlays: an XML element is [name, ns, attrs, nodes]; attrs is the set
   of <<name, value>> pairs of a map, nodes the sequence of child nodes, each
   an element or a text, and a text is the sequence of its characters *)

Element(name, ns, attrs, nodes) ==
    [name |-> name, ns |-> ns, attrs |-> attrs, nodes |-> nodes]
ElementNode(el) == [kind |-> "element", el |-> el]
TextNode(text) == [kind |-> "text", text |-> text]

Whitespace == {" ", "\n", "\t"}

RECURSIVE trim_start(_)
trim_start(text) ==
    IF text # <<>> /\ Head(text) \in Whitespace THEN trim_start(Tail(text)) ELSE text

RECURSIVE trim_end(_)
trim_end(text) ==
    IF text # <<>> /\ text[Len(text)] \in Whitespace
    THEN trim_end(SubSeq(text, 1, Len(text) - 1))
    ELSE text

trim(text) == trim_end(trim_start(text))

RECURSIVE Concat(_)
Concat(seqs) == IF seqs = <<>> THEN <<>> ELSE Head(seqs) \o Concat(Tail(seqs))

\* Element::text(): the text nodes of the element, concatenated
text(el) ==
    Concat([i \in 1..Len(el.nodes) |->
                IF el.nodes[i].kind = "text" THEN el.nodes[i].text ELSE <<>>])

\* Element::is()
is(el, name, ns) == el.name = name /\ el.ns = ns

\* Element::get_child(): the first child element of that name and namespace,
\* as a sequence of 0 or 1 element
get_child(el, name, ns) ==
    LET found == SelectSeq(el.nodes,
                     LAMBDA n : n.kind = "element" /\ is(n.el, name, ns))
    IN  IF found = <<>> THEN <<>> ELSE <<found[1].el>>

\* Element::has_child()
has_child(el, name, ns) == get_child(el, name, ns) # <<>>

\* ElementBuilder::attr() for each of base.attrs().chain(overlay.attrs())
merge_attrs(base, overlay) ==
    {a \in base.attrs : \A o \in overlay.attrs : o[1] # a[1]} \cup overlay.attrs

\* Faulty variant: the overlay's child elements are never appended
merge_overlay_node_no_elements(base, overlay_has_text, overlay_node) ==
    IF overlay_node.kind = "text" /\ overlay_has_text THEN <<overlay_node>> ELSE <<>>

\* Faulty variant: the overlay's child elements are appended whether or not the
\* base has a child of that name
merge_overlay_node_always(base, overlay_has_text, overlay_node) ==
    IF overlay_node.kind = "element" THEN <<overlay_node>>
    ELSE IF overlay_has_text THEN <<overlay_node>> ELSE <<>>

\* Body of the loop over overlay.nodes(): the nodes it appends
merge_overlay_node(base, overlay_has_text, overlay_node) ==
    IF overlay_node.kind = "element"
    THEN IF ~has_child(base, overlay_node.el.name, overlay_node.el.ns)
         THEN <<overlay_node>> ELSE <<>>
    ELSE IF overlay_has_text THEN <<overlay_node>> ELSE <<>>

RECURSIVE merge(_, _)

\* Body of the loop over base.nodes(): the nodes it appends
merge_base_node(base_node, overlay, overlay_has_text) ==
    IF base_node.kind = "element"
    THEN LET base_child == base_node.el
             overlay_child == get_child(overlay, base_child.name, base_child.ns)
         IN  IF overlay_child # <<>>
             THEN <<ElementNode(merge(base_child, overlay_child[1]))>>
             ELSE <<base_node>>
    ELSE IF ~overlay_has_text THEN <<base_node>> ELSE <<>>

merge(base, overlay) ==
    LET overlay_has_text == trim(text(overlay)) # <<>> IN
    Element(base.name, base.ns, merge_attrs(base, overlay),
            Concat([i \in 1..Len(base.nodes) |->
                        merge_base_node(base.nodes[i], overlay, overlay_has_text)])
         \o Concat([i \in 1..Len(overlay.nodes) |->
                        merge_overlay_node(base, overlay_has_text, overlay.nodes[i])]))

\* The nodes the base domain and an overlay are built of
MgNodes ==
    { ElementNode(Element("disk", "", {<<"type", "file">>},
          <<ElementNode(Element("source", "", {<<"file", "a">>}, <<>>))>>)),
      ElementNode(Element("disk", "", {<<"type", "block">>, <<"device", "disk">>},
          <<ElementNode(Element("target", "", {<<"dev", "vda">>}, <<>>))>>)),
      ElementNode(Element("name", "", {}, <<TextNode(<<"v", "m">>)>>)),
      ElementNode(Element("name", "", {}, <<TextNode(<<" ">>), TextNode(<<"o">>)>>)),
      ElementNode(Element("disk", "x", {<<"type", "file">>}, <<>>)),
      TextNode(<<"t">>),
      TextNode(<<" ">>) }

MgIdle == [pc |-> "idle"]

MgInit ==
    mg = [pc |-> "load",
          base |-> Element("domain", "", {<<"type", "kvm">>}, <<>>),
          overlay |-> Element("domain", "", {<<"type", "qemu">>, <<"id", "1">>}, <<>>),
          out |-> <<>>,
          merges |-> 0]

\* The base domain XML that generate() wrote has one more node
MgLoadBase ==
    /\ mg.pc = "load"
    /\ Len(mg.base.nodes) < MaxNodes
    /\ \E n \in MgNodes : mg' = [mg EXCEPT !.base.nodes = Append(@, n)]
    /\ UNCHANGED <<input, host, inv, hist, xf, vc, fb, ut, rt, ex, co, sp, cc>>

\* The overlay that --merge-libvirt-xml names has one more node
MgLoadOverlay ==
    /\ mg.pc = "load"
    /\ Len(mg.overlay.nodes) < MaxNodes
    /\ \E n \in MgNodes : mg' = [mg EXCEPT !.overlay.nodes = Append(@, n)]
    /\ UNCHANGED <<input, host, inv, hist, xf, vc, fb, ut, rt, ex, co, sp, cc>>

\* base_root = merge(&base_root, &overlay_root)
MgMerge ==
    /\ mg.pc = "load"
    /\ mg' = [mg EXCEPT !.pc = "merged", !.out = <<merge(mg.base, mg.overlay)>>,
                         !.merges = 1]
    /\ UNCHANGED <<input, host, inv, hist, xf, vc, fb, ut, rt, ex, co, sp, cc>>

\* The next iteration of the loop over overlay_paths, for a command line that
\* names the same overlay file once more: the base is the result so far
MgMergeAgain ==
    /\ mg.pc = "merged"
    /\ mg.merges < MaxOverlays
    /\ mg' = [mg EXCEPT !.base = mg.out[1],
                         !.out = <<merge(mg.out[1], mg.overlay)>>,
                         !.merges = @ + 1]
    /\ UNCHANGED <<input, host, inv, hist, xf, vc, fb, ut, rt, ex, co, sp, cc>>

-----------------------------------------------------------------------------
(* get_vcpu_count: u64 and i64 are Bits wide in the model; an Option is a
   sequence of 0 or 1 value *)

U64_MAX == 2^Bits - 1
I64_MAX == 2^(Bits - 1) - 1

\* u64::try_from(i64)
try_into_u64(i) == IF i < 0 THEN <<>> ELSE <<i>>

checked_add(a, b) == IF a + b > U64_MAX THEN <<>> ELSE <<a + b>>
checked_sub(a, b) == IF a < b THEN <<>> ELSE <<a - b>>
checked_div(a, b) == IF b = 0 THEN <<>> ELSE <<a \div b>>

\* Faulty variant: quota / period is rounded down
get_vcpu_count_rounded_down(linux_cpu, num_cpus) ==
    IF linux_cpu = <<>> \/ linux_cpu[1].quota = <<>> \/ linux_cpu[1].period = <<>>
       \/ linux_cpu[1].period[1] = 0 \/ linux_cpu[1].quota[1] <= 0
    THEN num_cpus
    ELSE linux_cpu[1].quota[1] \div linux_cpu[1].period[1]

\* linux_cpu is spec.linux.resources.cpu, absent when any of the three is
get_vcpu_count(linux_cpu, num_cpus) ==
    LET vcpu_count ==
            IF linux_cpu = <<>> THEN <<>>
            ELSE IF linux_cpu[1].quota = <<>> THEN <<>>
            ELSE LET quota == try_into_u64(linux_cpu[1].quota[1]) IN
                 IF quota = <<>> THEN <<>>
                 ELSE IF linux_cpu[1].period = <<>> THEN <<>>
                 ELSE LET period == linux_cpu[1].period[1] IN
                      IF quota[1] = 0 THEN <<>>
                      ELSE LET sum == checked_add(quota[1], period) IN
                           IF sum = <<>> THEN <<>>
                           ELSE LET dividend == checked_sub(sum[1], 1) IN
                                IF dividend = <<>> THEN <<>>
                                ELSE checked_div(dividend[1], period)
    IN  IF vcpu_count # <<>> THEN vcpu_count[1] ELSE num_cpus

\* linux.resources.cpu.quota (i64) and .period (u64) of the input specs
VcQuotas == { <<>>, <<0 - I64_MAX - 1>>, <<0 - 1>>, <<0>>, <<1>>, <<3>>,
              <<150000>>, <<200000>>, <<I64_MAX>> }
VcPeriods == { <<>>, <<0>>, <<1>>, <<2>>, <<100000>>, <<U64_MAX - 1>>, <<U64_MAX>> }

VcIdle == [pc |-> "idle"]

\* num_cpus::get() is at least 1
VcInit ==
    \E n \in 1..MaxCpus : vc = [pc |-> "spec", linux_cpu |-> <<>>, num_cpus |-> n,
                               vcpu_count |-> 0]

\* The engine sets --cpu-quota/--cpu-period (--cpus) in the spec
VcSetCpu ==
    /\ vc.pc = "spec"
    /\ \E quota \in VcQuotas, period \in VcPeriods :
          /\ <<[quota |-> quota, period |-> period]>> # vc.linux_cpu
          /\ vc' = [vc EXCEPT !.linux_cpu = <<[quota |-> quota, period |-> period]>>]
    /\ UNCHANGED <<input, host, inv, hist, xf, mg, fb, ut, rt, ex, co, sp, cc>>

VcGetVcpuCount ==
    /\ vc.pc = "spec"
    /\ vc' = [vc EXCEPT !.pc = "done",
                         !.vcpu_count = get_vcpu_count(vc.linux_cpu, vc.num_cpus)]
    /\ UNCHANGED <<input, host, inv, hist, xf, mg, fb, ut, rt, ex, co, sp, cc>>

-----------------------------------------------------------------------------
(* The first-boot configs: a YAML or JSON value is a string, a boolean, a
   number, a sequence of values or a mapping; a mapping is the sequence of its
   [key, value] entries in insertion order, each key once *)

Null == [kind |-> "null"]
Str(str) == [kind |-> "str", str |-> str]
Bool(bool) == [kind |-> "bool", bool |-> bool]
Num(num) == [kind |-> "num", num |-> num]
Sequence(items) == [kind |-> "seq", items |-> items]
Mapping(entries) == [kind |-> "map", entries |-> entries]
Strs(strs) == Sequence([i \in 1..Len(strs) |-> Str(strs[i])])

contains_key(entries, key) == \E i \in 1..Len(entries) : entries[i].key = key

\* Mapping::get(): the value of the key, as a sequence of 0 or 1 value
get(entries, key) ==
    LET found == SelectSeq(entries, LAMBDA e : e.key = key)
    IN  IF found = <<>> THEN <<>> ELSE <<found[1].value>>

\* Mapping::insert(): replaces the value of a key the mapping has
insert(entries, key, value) ==
    IF contains_key(entries, key)
    THEN [i \in 1..Len(entries) |->
            IF entries[i].key = key THEN [key |-> key, value |-> value] ELSE entries[i]]
    ELSE Append(entries, [key |-> key, value |-> value])

\* Mapping::entry(key).or_insert_with(default), then the value of the key
or_insert_with(entries, key, default) ==
    IF contains_key(entries, key) THEN entries ELSE insert(entries, key, default)

RECURSIVE JoinPath(_)
JoinPath(comps) ==
    IF comps = <<>> THEN ""
    ELSE IF Len(comps) = 1 THEN comps[1]
    ELSE comps[1] \o "/" \o JoinPath(Tail(comps))

\* Path::as_str() of a path of the model
as_str(path) ==
    IF path # <<>> /\ path[1] = "/" THEN "/" \o JoinPath(Tail(path)) ELSE JoinPath(path)

\* Path::parent(), as a sequence of 0 or 1 path
parent(path) ==
    IF path = <<>> \/ path = <<"/">> THEN <<>> ELSE <<SubSeq(path, 1, Len(path) - 1)>>

file_name(path) == path[Len(path)]

\* Faulty variant: no symlink for a block device anywhere below /dev
get_block_device_symlinks_not_below_dev(mounts) ==
    LET symlink(i) ==
            IF ~StartsWith(mounts.block_device[i].path_in_guest, Abs(<<"dev">>))
            THEN <<[path |-> mounts.block_device[i].path_in_guest,
                    target |-> "/dev/disk/by-id/virtio-crun-qemu-block-"
                               \o ToString(i - 1)]>>
            ELSE <<>>
    IN  Concat([i \in 1..Len(mounts.block_device) |-> symlink(i)])

\* The (path, target) pairs of the block devices that are not directly in /dev
get_block_device_symlinks(mounts) ==
    LET symlink(i) ==
            IF parent(mounts.block_device[i].path_in_guest) # <<Abs(<<"dev">>)>>
            THEN <<[path |-> mounts.block_device[i].path_in_guest,
                    target |-> "/dev/disk/by-id/virtio-crun-qemu-block-"
                               \o ToString(i - 1)]>>
            ELSE <<>>
    IN  Concat([i \in 1..Len(mounts.block_device) |-> symlink(i)])

RECURSIVE ConcatStr(_)
ConcatStr(strs) == IF strs = <<>> THEN "" ELSE Head(strs) \o ConcatStr(Tail(strs))

\* The udev rules of the block devices directly in /dev, as a sequence of 0 or
\* 1 string
get_block_device_udev_rules(mounts) ==
    LET rule(i) ==
            IF parent(mounts.block_device[i].path_in_guest) = <<Abs(<<"dev">>)>>
            THEN "ENV{ID_SERIAL}==\"crun-qemu-block-" \o ToString(i - 1)
                 \o "\", SYMLINK+=\""
                 \o file_name(mounts.block_device[i].path_in_guest) \o "\"\n"
            ELSE ""
        rules == ConcatStr([i \in 1..Len(mounts.block_device) |-> rule(i)])
    IN  IF rules = "" THEN <<>> ELSE <<rules>>

\* match entry(key).or_insert_with(default) { kind => .., _ => bail!() }:
\* st is [ok, entries]
entry_of_kind(st, key, default, kind) ==
    IF ~st.ok THEN st
    ELSE LET entries == or_insert_with(st.entries, key, default) IN
         [ok |-> get(entries, key)[1].kind = kind, entries |-> entries]

\* The sequence at key, made when missing, gets items pushed
push(st, key, items) ==
    LET with == entry_of_kind(st, key, Sequence(<<>>), "seq") IN
    IF ~with.ok THEN with
    ELSE [with EXCEPT !.entries =
            insert(@, key, Sequence(get(with.entries, key)[1].items \o items))]

\* The mapping at key, made when missing, gets key2 set to value
insert_in(st, key, key2, value) ==
    LET with == entry_of_kind(st, key, Mapping(<<>>), "map") IN
    IF ~with.ok THEN with
    ELSE [with EXCEPT !.entries =
            insert(@, key, Mapping(insert(get(with.entries, key)[1].entries,
                                          key2, value)))]

insert_if_ok(st, key, value) ==
    IF ~st.ok THEN st ELSE [st EXCEPT !.entries = insert(@, key, value)]

cloud_init_set_password(st, config) ==
    IF config.password = <<>> THEN st
    ELSE insert_in(insert_if_ok(st, "password", Str(config.password[1])),
                   "chpasswd", "expire", Bool(FALSE))

cloud_init_add_mount(typ, tag, path_in_guest) ==
    Strs(<<tag, as_str(path_in_guest), typ, "defaults", "0", "0">>)

cloud_init_virtiofs_mounts(mounts) ==
    [i \in 1..Len(mounts.virtiofs) |->
        cloud_init_add_mount("virtiofs", "virtiofs-" \o ToString(i - 1),
                             mounts.virtiofs[i].path_in_guest)]

cloud_init_tmpfs_mounts(mounts) ==
    [i \in 1..Len(mounts.tmpfs) |->
        cloud_init_add_mount("tmpfs", "tmpfs", mounts.tmpfs[i].path_in_guest)]

cloud_init_new_mounts_tmpfs_first(mounts) ==
    cloud_init_tmpfs_mounts(mounts) \o cloud_init_virtiofs_mounts(mounts)

cloud_init_new_mounts(mounts) ==
    cloud_init_virtiofs_mounts(mounts) \o cloud_init_tmpfs_mounts(mounts)

cloud_init_adjust_mounts(st, config) ==
    IF config.mounts.virtiofs = <<>> /\ config.mounts.tmpfs = <<>> THEN st
    ELSE push(st, "mounts", cloud_init_new_mounts(config.mounts))

cloud_init_adjust_hostname(st, config) ==
    IF config.hostname = <<>> THEN st
    ELSE insert_if_ok(
             insert_if_ok(
                 insert_if_ok(st, "preserve_hostname", Bool(FALSE)),
                 "prefer_fqdn_over_hostname", Bool(FALSE)),
             "hostname", Str(config.hostname[1]))

cloud_init_adjust_authorized_keys(st, config) ==
    push(st, "ssh_authorized_keys", <<Str(config.container_public_key)>>)

cloud_init_runcmd(st, config) ==
    LET block_device_symlinks == get_block_device_symlinks(config.mounts)
        block_device_udev_rules == get_block_device_udev_rules(config.mounts)
        cmds(i) == << Strs(<<"mkdir", "-p",
                             as_str(parent(block_device_symlinks[i].path)[1])>>),
                      Strs(<<"ln", "--symbolic", block_device_symlinks[i].target,
                             as_str(block_device_symlinks[i].path)>>) >>
    IN  IF block_device_symlinks = <<>> /\ block_device_udev_rules = <<>> THEN st
        ELSE push(st, "runcmd",
                  Concat([i \in 1..Len(block_device_symlinks) |-> cmds(i)])
                  \o (IF block_device_udev_rules # <<>>
                      THEN <<Str("udevadm trigger")>> ELSE <<>>))

cloud_init_write_files(st, config) ==
    LET block_device_udev_rules == get_block_device_udev_rules(config.mounts) IN
    IF block_device_udev_rules = <<>> THEN st
    ELSE push(st, "write_files",
              << Mapping(<< [key |-> "path",
                             value |-> Str("/etc/udev/rules.d/99-crun-qemu.rules")],
                            [key |-> "content",
                             value |-> Str(block_device_udev_rules[1])] >>) >>)

\* in_config is the --cloud-init directory, as a sequence of 0 or 1 record
\* [has_meta_data, shebang, user_data]: whether it has a meta-data file,
\* whether the first line of user-data is #cloud-config, and the value that
\* user-data parses to.  The result is [ok, user_data], user_data the value
\* written to the user-data file of the ISO.
apply_to_cloud_init_config(config, in_config) ==
    LET user_data == IF in_config = <<>> THEN Null ELSE in_config[1].user_data
        user_data_mapping ==
            IF user_data.kind = "null" THEN <<>> ELSE user_data.entries
        st0 == [ok |-> TRUE, entries |-> user_data_mapping]
        st1 == cloud_init_set_password(st0, config)
        st2 == cloud_init_adjust_mounts(st1, config)
        st3 == cloud_init_adjust_hostname(st2, config)
        st4 == cloud_init_adjust_authorized_keys(st3, config)
        st5 == cloud_init_runcmd(st4, config)
        st6 == cloud_init_write_files(st5, config)
    IN  IF in_config # <<>> /\ (~in_config[1].has_meta_data \/ ~in_config[1].shebang)
        THEN [ok |-> FALSE, user_data |-> Null]
        ELSE IF user_data.kind \notin {"null", "map"}
        THEN [ok |-> FALSE, user_data |-> Null]
        ELSE IF ~st6.ok THEN [ok |-> FALSE, user_data |-> Null]
        ELSE [ok |-> TRUE, user_data |-> Mapping(st6.entries)]

Object(keys, values) ==
    Mapping([i \in 1..Len(keys) |-> [key |-> keys[i], value |-> values[i]]])

\* m.get("name") == Some(&"core".into())
is_core(user) == user.kind = "map" /\ get(user.entries, "name") = <<Str("core")>>

\* The loop over users: the users before the first one named core must be
\* objects, and that one gets the key; st is [ok, entries] of one user
ignition_push_key(users, config) ==
    LET core == CHOOSE i \in 1..Len(users) :
                    is_core(users[i]) /\ \A j \in 1..(i - 1) : ~is_core(users[j])
        keys == push([ok |-> TRUE, entries |-> users[core].entries],
                     "sshAuthorizedKeys", <<Str(config.container_public_key)>>)
    IN  IF \E j \in 1..(core - 1) : users[j].kind # "map" THEN [ok |-> FALSE, items |-> users]
        ELSE [ok |-> keys.ok,
              items |-> [users EXCEPT ![core] = Mapping(keys.entries)]]

ignition_adjust_authorized_keys(st, config) ==
    LET with_passwd == entry_of_kind(st, "passwd", Mapping(<<>>), "map")
        passwd == [ok |-> TRUE, entries |-> get(with_passwd.entries, "passwd")[1].entries]
        with_users == entry_of_kind(passwd, "users", Sequence(<<>>), "seq")
        users == get(with_users.entries, "users")[1].items
        users_contains_core == \E i \in 1..Len(users) : is_core(users[i])
        all_users == IF users_contains_core THEN users
                     ELSE Append(users, Object(<<"name">>, <<Str("core")>>))
        pushed == ignition_push_key(all_users, config)
    IN  IF ~with_passwd.ok THEN with_passwd
        ELSE IF ~with_users.ok \/ ~pushed.ok THEN [with_passwd EXCEPT !.ok = FALSE]
        ELSE [with_passwd EXCEPT !.entries =
                insert(@, "passwd",
                       Mapping(insert(with_users.entries, "users",
                                      Sequence(pushed.items))))]

ignition_file(path, source) ==
    Object(<<"path", "mode", "overwrite", "contents">>,
           <<Str(path), Num(420), Bool(TRUE), Object(<<"source">>, <<Str(source)>>)>>)

\* files.retain() and files.push() of the /etc/hostname record
ignition_hostname_file(files, config) ==
    IF config.hostname = <<>> THEN files
    ELSE Append(SelectSeq(files,
                    LAMBDA f : ~(f.kind = "map"
                                 /\ get(f.entries, "path") = <<Str("/etc/hostname")>>)),
                ignition_file("/etc/hostname", "data:," \o config.hostname[1]))

\* urlencoding::encode() of get_block_device_udev_rules(): the names of the
\* model's devices are alphanumeric and stay as they are
encoded_block_device_udev_rules(mounts) ==
    LET rule(i) ==
            IF parent(mounts.block_device[i].path_in_guest) = <<Abs(<<"dev">>)>>
            THEN "ENV%7BID_SERIAL%7D%3D%3D%22crun-qemu-block-" \o ToString(i - 1)
                 \o "%22%2C%20SYMLINK%2B%3D%22"
                 \o file_name(mounts.block_device[i].path_in_guest) \o "%22%0A"
            ELSE ""
    IN  ConcatStr([i \in 1..Len(mounts.block_device) |-> rule(i)])

ignition_udev_rules_file(files, config) ==
    IF get_block_device_udev_rules(config.mounts) = <<>> THEN files
    ELSE Append(files, ignition_file("/etc/udev/rules.d/99-crun-qemu.rules",
                    "data:," \o encoded_block_device_udev_rules(config.mounts)))

ignition_links(config) ==
    LET symlinks == get_block_device_symlinks(config.mounts) IN
    [i \in 1..Len(symlinks) |->
        Object(<<"path", "overwrite", "target", "hard">>,
               <<Str(as_str(symlinks[i].path)), Bool(TRUE),
                 Str(symlinks[i].target), Bool(FALSE)>>)]

ignition_adjust_storage(st, config) ==
    LET with_storage == entry_of_kind(st, "storage", Mapping(<<>>), "map")
        storage == [ok |-> TRUE,
                    entries |-> get(with_storage.entries, "storage")[1].entries]
        with_files == entry_of_kind(storage, "files", Sequence(<<>>), "seq")
        files == ignition_udev_rules_file(
                     ignition_hostname_file(get(with_files.entries, "files")[1].items,
                                            config), config)
        with_links == push([ok |-> TRUE,
                            entries |-> insert(with_files.entries, "files",
                                               Sequence(files))],
                           "links", ignition_links(config))
    IN  IF ~with_storage.ok THEN with_storage
        ELSE IF ~with_files.ok \/ ~with_links.ok THEN [with_storage EXCEPT !.ok = FALSE]
        ELSE [with_storage EXCEPT !.entries =
                insert(@, "storage", Mapping(with_links.entries))]

RECURSIVE JoinDash(_)
JoinDash(comps) ==
    IF comps = <<>> THEN ""
    ELSE IF Len(comps) = 1 THEN comps[1]
    ELSE comps[1] \o "-" \o JoinDash(Tail(comps))

\* path_in_guest.trim_matches('/').replace('/', "-")
systemd_unit_file_name(path_in_guest) ==
    JoinDash(IF path_in_guest # <<>> /\ path_in_guest[1] = "/"
             THEN Tail(path_in_guest) ELSE path_in_guest) \o ".mount"

ignition_add_mount(typ, tag, path_in_guest) ==
    Object(<<"name", "enabled", "contents">>,
           <<Str(systemd_unit_file_name(path_in_guest)), Bool(TRUE),
             Str("[Mount]\nWhat=" \o tag \o "\nWhere=" \o as_str(path_in_guest)
                 \o "\nType=" \o typ \o "\n\n[Install]\nWantedBy=local-fs.target\n")>>)

ignition_new_units(mounts) ==
    [i \in 1..Len(mounts.virtiofs) |->
        ignition_add_mount("virtiofs", "virtiofs-" \o ToString(i - 1),
                           mounts.virtiofs[i].path_in_guest)]
    \o [i \in 1..Len(mounts.tmpfs) |->
        ignition_add_mount("tmpfs", "tmpfs", mounts.tmpfs[i].path_in_guest)]

ignition_adjust_mounts(st, config) ==
    LET with_systemd == entry_of_kind(st, "systemd", Mapping(<<>>), "map")
        systemd == [ok |-> TRUE,
                    entries |-> get(with_systemd.entries, "systemd")[1].entries]
        with_units == push(systemd, "units", ignition_new_units(config.mounts))
    IN  IF ~with_systemd.ok THEN with_systemd
        ELSE IF ~with_units.ok THEN [with_systemd EXCEPT !.ok = FALSE]
        ELSE [with_systemd EXCEPT !.entries =
                insert(@, "systemd", Mapping(with_units.entries))]

\* in_config is the value the --ignition file parses to, as a sequence of 0 or
\* 1 value.  The result is [ok, user_data], user_data the value written.
apply_to_ignition_config(config, in_config) ==
    LET user_data ==
            IF in_config # <<>> THEN in_config[1]
            ELSE Object(<<"ignition">>, <<Object(<<"version">>, <<Str("3.0.0")>>)>>)
        st0 == [ok |-> TRUE, entries |-> user_data.entries]
        st1 == ignition_adjust_authorized_keys(st0, config)
        st2 == IF st1.ok THEN ignition_adjust_storage(st1, config) ELSE st1
        st3 == IF st2.ok THEN ignition_adjust_mounts(st2, config) ELSE st2
    IN  IF user_data.kind # "map" \/ ~st3.ok THEN [ok |-> FALSE, user_data |-> Null]
        ELSE [ok |-> TRUE, user_data |-> Mapping(st3.entries)]

FbIdle == [pc |-> "idle"]

\* The container specs that create sets up a first boot for
FbSpecs ==
    { [mounts |-> mounts, devices |-> <<>>, blockdev |-> blockdev] :
        mounts \in { <<>>,
                     <<DirMount, TmpfsMount,
                       [DirMount EXCEPT !.destination = Abs(<<"mnt", "b">>)]>>,
                     <<FileMount, TmpfsMount>>,
                     <<[DirMount EXCEPT !.destination = Abs(<<"dev", "shm">>)],
                       ProcMount, DirMount>>,
                     <<[FileMount EXCEPT !.destination = Abs(<<"dev", "disk", "data">>)],
                       [FileMount EXCEPT !.destination = Abs(<<"dev", "foo">>)]>> },
        blockdev \in XfBlockdevs }

\* The Mounts that create hands to the generators
FbMounts == { transform(spec).mounts : spec \in FbSpecs }

FbConfigs ==
    [hostname : {<<>>, <<"vm">>}, password : {<<>>, <<"secret">>},
     container_public_key : {"ssh-ed25519 CONTAINER"}, mounts : FbMounts]

\* Entries of the user-data files that users pass with --cloud-init
FbCloudInitEntries ==
    { [key |-> "mounts",
       value |-> Sequence(<<Strs(<<"/dev/vdb", "/data", "auto", "defaults", "0", "0">>),
                            Strs(<<"swap", "none", "swap">>)>>)],
      [key |-> "mounts", value |-> Str("none")],
      [key |-> "ssh_authorized_keys", value |-> Strs(<<"ssh-rsa USER">>)],
      [key |-> "hostname", value |-> Str("user-host")],
      [key |-> "preserve_hostname", value |-> Bool(TRUE)],
      [key |-> "password", value |-> Str("user-password")],
      [key |-> "chpasswd",
       value |-> Object(<<"expire", "users">>, <<Bool(TRUE), Strs(<<"u">>)>>)],
      [key |-> "runcmd", value |-> Sequence(<<Strs(<<"touch", "/ran">>)>>)],
      [key |-> "packages", value |-> Strs(<<"vim">>)] }

\* Entries of the configs that users pass with --ignition
FbIgnitionEntries ==
    { [key |-> "ignition", value |-> Object(<<"version">>, <<Str("3.4.0")>>)],
      [key |-> "passwd",
       value |-> Object(<<"users">>,
                   <<Sequence(<<Object(<<"name">>, <<Str("admin")>>),
                                Object(<<"name", "sshAuthorizedKeys">>,
                                       <<Str("core"), Strs(<<"ssh-rsa USER">>)>>)>>)>>)],
      [key |-> "passwd",
       value |-> Object(<<"users">>,
                   <<Sequence(<<Str("admin"),
                                Object(<<"name">>, <<Str("core")>>)>>)>>)],
      [key |-> "storage",
       value |-> Object(<<"files">>,
                   <<Sequence(<<ignition_file("/etc/hostname", "data:,user-host"),
                                ignition_file("/etc/motd", "data:,hello")>>)>>)],
      [key |-> "storage", value |-> Object(<<"files">>, <<Str("none")>>)],
      [key |-> "systemd",
       value |-> Object(<<"units">>,
                   <<Sequence(<<Object(<<"name", "enabled">>,
                                       <<Str("user.service"), Bool(TRUE)>>)>>)>>)] }

FbInit ==
    \E spec \in FbSpecs : \E config \in FbConfigs :
        /\ config.mounts = transform(spec).mounts
        /\ \/ \E in_config \in {<<>>, <<Mapping(<<>>)>>, <<Strs(<<"a">>)>>} :
                  fb = [pc |-> "input", format |-> "ignition", config |-> config,
                        in_config |-> in_config, out |-> <<>>,
                        spec |-> spec, spec_mounts |-> transform(spec).spec_mounts,
                        domain |-> <<>>]
           \/ \E in_config \in
                    {<<>>} \cup
                    { <<[has_meta_data |-> TRUE, shebang |-> TRUE, user_data |-> v]>> :
                        v \in {Null, Mapping(<<>>), Strs(<<"a">>)} } \cup
                    { <<[has_meta_data |-> m, shebang |-> ~m, user_data |-> Mapping(<<>>)]>> :
                        m \in BOOLEAN } :
                  fb = [pc |-> "input", format |-> "cloud-init", config |-> config,
                        in_config |-> in_config, out |-> <<>>,
                        spec |-> spec, spec_mounts |-> transform(spec).spec_mounts,
                        domain |-> <<>>]

\* The user's config has one more entry
FbUserEntry ==
    /\ fb.pc = "input"
    /\ fb.in_config # <<>>
    /\ \/ /\ fb.format = "ignition"
          /\ fb.in_config[1].kind = "map"
          /\ Len(fb.in_config[1].entries) < MaxUserEntries
          /\ \E e \in FbIgnitionEntries :
                /\ ~contains_key(fb.in_config[1].entries, e.key)
                /\ fb' = [fb EXCEPT !.in_config[1].entries = Append(@, e)]
       \/ /\ fb.format = "cloud-init"
          /\ fb.in_config[1].user_data.kind = "map"
          /\ Len(fb.in_config[1].user_data.entries) < MaxUserEntries
          /\ \E e \in FbCloudInitEntries :
                /\ ~contains_key(fb.in_config[1].user_data.entries, e.key)
                /\ fb' = [fb EXCEPT !.in_config[1].user_data.entries = Append(@, e)]
    /\ UNCHANGED <<input, host, inv, hist, xf, mg, vc, ut, rt, ex, co, sp, cc>>

FbApplyToCloudInitConfig ==
    /\ fb.pc = "input"
    /\ fb.format = "cloud-init"
    /\ fb' = [fb EXCEPT !.pc = "done",
                         !.out = <<apply_to_cloud_init_config(fb.config, fb.in_config)>>]
    /\ UNCHANGED <<input, host, inv, hist, xf, mg, vc, ut, rt, ex, co, sp, cc>>

FbApplyToIgnitionConfig ==
    /\ fb.pc = "input"
    /\ fb.format = "ignition"
    /\ fb' = [fb EXCEPT !.pc = "done",
                         !.out = <<apply_to_ignition_config(fb.config, fb.in_config)>>]
    /\ UNCHANGED <<input, host, inv, hist, xf, mg, vc, ut, rt, ex, co, sp, cc>>

\* set_up_libvirt_domain_xml, which create calls right after
\* set_up_first_boot_config with the same Mounts: the disks and filesystems of
\* the domain XML
FbSetUpLibvirtDomainXml ==
    /\ fb.pc = "done"
    /\ fb.out[1].ok
    /\ fb.domain = <<>>
    /\ fb' = [fb EXCEPT !.domain =
                <<[disks |-> generate_disks(EphemeralImageInfo, fb.config.mounts),
                   filesystems |-> generate_filesystems(fb.config.mounts)]>>]
    /\ UNCHANGED <<input, host, inv, hist, xf, mg, vc, ut, rt, ex, co, sp, cc>>

-----------------------------------------------------------------------------
(* find_single_file_in_dirs *)

\* Path::components(): a "." that is not first is normalized away; paths are
\* equal when their components are
components(path) ==
    [i \in 1..Len(path) |-> IF i > 1 /\ path[i] = "." THEN <<>> ELSE <<path[i]>>]

path_eq(p, q) == Concat(components(p)) = Concat(components(q))

find_single_file_entry_last_wins(st, dir_path, e, ignore_files) ==
    IF ~st.ok \/ ~e.is_file THEN st
    ELSE IF \E i \in 1..Len(ignore_files) : path_eq(Append(dir_path, e.file_name), ignore_files[i])
    THEN st
    ELSE [st EXCEPT !.candidate = <<Append(dir_path, e.file_name)>>]

\* Body of the loop over dir_path.read_dir(): st is [ok, candidate, error]
find_single_file_entry(st, dir_path, e, ignore_files) ==
    IF ~st.ok \/ ~e.is_file THEN st
    ELSE LET path == Append(dir_path, e.file_name) IN
         IF \E i \in 1..Len(ignore_files) : path_eq(path, ignore_files[i]) THEN st
         ELSE IF st.candidate # <<>>
         THEN [st EXCEPT !.ok = FALSE, !.error = "more than one file found"]
         ELSE [st EXCEPT !.candidate = <<path>>]

RECURSIVE find_single_file_entries(_, _, _, _)
find_single_file_entries(st, dir_path, entries, ignore_files) ==
    IF entries = <<>> THEN st
    ELSE find_single_file_entries(
             find_single_file_entry(st, dir_path, Head(entries), ignore_files),
             dir_path, Tail(entries), ignore_files)

RECURSIVE find_single_file_dirs(_, _, _)
find_single_file_dirs(st, dirs, ignore_files) ==
    IF dirs = <<>> THEN st
    ELSE find_single_file_dirs(
             IF Head(dirs).is_dir
             THEN find_single_file_entries(st, Head(dirs).path, Head(dirs).entries,
                                           ignore_files)
             ELSE st,
             Tail(dirs), ignore_files)

\* dirs are the directories at dir_paths, each [path, is_dir, entries], the
\* entries [file_name, is_file] in the order read_dir() gives them
find_single_file_in_dirs(dirs, ignore_files) ==
    LET st == find_single_file_dirs([ok |-> TRUE, candidate |-> <<>>, error |-> ""],
                                    dirs, ignore_files)
    IN  IF st.ok /\ st.candidate = <<>>
        THEN [st EXCEPT !.ok = FALSE, !.error = "no files found"]
        ELSE st

original_root_path == Abs(<<"rootfs">>)

\* VM_IMAGE_SEARCH_PATHS.map(|p| original_root_path.join(p))
VM_IMAGE_SEARCH_PATHS == << Append(original_root_path, "."), Append(original_root_path, "disk") >>

\* FILES_TO_IGNORE.map(|f| original_root_path.join(f))
FILES_TO_IGNORE ==
    << Append(original_root_path, ".dockerinit"), Append(original_root_path, ".dockerenv") >>

\* What a container image's root and disk/ directories can hold
UtEntries ==
    { [file_name |-> ".dockerenv", is_file |-> TRUE],
      [file_name |-> "image.qcow2", is_file |-> TRUE],
      [file_name |-> "other.img", is_file |-> TRUE],
      [file_name |-> "disk", is_file |-> FALSE],
      [file_name |-> "lost+found", is_file |-> FALSE] }

UtIdle == [pc |-> "idle"]

UtInit ==
    \E disk_is_dir \in BOOLEAN :
        ut = [pc |-> "dirs",
              dirs |-> << [path |-> VM_IMAGE_SEARCH_PATHS[1], is_dir |-> TRUE,
                           entries |-> <<>>],
                          [path |-> VM_IMAGE_SEARCH_PATHS[2], is_dir |-> disk_is_dir,
                           entries |-> <<>>] >>,
              out |-> <<>>]

\* A directory of the image has one more entry
UtAddEntry ==
    /\ ut.pc = "dirs"
    /\ \E d \in 1..Len(ut.dirs), e \in UtEntries :
          /\ ut.dirs[d].is_dir
          /\ Len(ut.dirs[d].entries) < MaxEntries
          /\ \A i \in 1..Len(ut.dirs[d].entries) :
                ut.dirs[d].entries[i].file_name # e.file_name
          /\ ut' = [ut EXCEPT !.dirs[d].entries = Append(@, e)]
    /\ UNCHANGED <<input, host, inv, hist, xf, mg, vc, fb, rt, ex, co, sp, cc>>

UtFindSingleFileInDirs ==
    /\ ut.pc = "dirs"
    /\ ut' = [ut EXCEPT !.pc = "done",
                         !.out = <<find_single_file_in_dirs(ut.dirs, FILES_TO_IGNORE)>>]
    /\ UNCHANGED <<input, host, inv, hist, xf, mg, vc, fb, rt, ex, co, sp, cc>>

-----------------------------------------------------------------------------
(* main *)

RtIdle == [pc |-> "idle"]

\* liboci_cli::StandardCmd and liboci_cli::CommonCmd
StandardCmd == {"create", "delete", "start", "state", "kill"}
CommonCmd ==
    {"exec", "checkpoint", "events", "features", "list", "pause", "ps", "resume",
     "run", "update", "spec"}

\* Args::parse_from: the subcommand follows the global options (--debug is a
\* flag, --root takes a value)
RECURSIVE parse_command(_)
parse_command(raw_args) ==
    IF raw_args = <<>> THEN ""
    ELSE IF Head(raw_args) = "--debug" THEN parse_command(Tail(raw_args))
    ELSE IF Head(raw_args) = "--root" THEN parse_command(Tail(Tail(raw_args)))
    ELSE Head(raw_args)

\* util::crun: crun is run with args, status is how that went.  Result:
\* [invoked, result]
crun(args, status) ==
    [invoked |-> <<args>>,
     result |-> IF status = "success" THEN "Ok"
                ELSE IF status = "failure" THEN "crun failed"
                ELSE "spawn failed"]

\* Faulty variant: every command that has no handler is passed on to crun
main_forwards_all(raw_args, status, handler_result) ==
    IF parse_command(raw_args) \in {"create", "delete", "exec"}
    THEN [invoked |-> <<>>, handler |-> parse_command(raw_args),
          result |-> handler_result]
    ELSE crun(raw_args, status) @@ [handler |-> ""]

\* main: status is the outcome of crun if it is run, handler_result the result
\* of create, delete or exec if one of them is called.  Result: [invoked,
\* handler, result], invoked being the argument vectors main itself ran crun with
main(raw_args, status, handler_result) ==
    LET command == parse_command(raw_args)
    IN  IF command \in {"create", "delete", "exec"}
        THEN [invoked |-> <<>>, handler |-> command, result |-> handler_result]
        ELSE IF command \in {"start", "state", "kill"}
        THEN crun(raw_args, status) @@ [handler |-> ""]
        ELSE [invoked |-> <<>>, handler |-> "", result |-> "Unknown command"]

RtGlobalOpts == {<<>>, <<"--debug">>, <<"--root", "/run/crun">>}
RtCommandArgs == {<<"ctr">>, <<"--all", "ctr">>}
CrunStatuses == {"success", "failure", "spawn failed"}

RtInit ==
    \E global \in RtGlobalOpts, command \in StandardCmd \cup CommonCmd,
       args \in RtCommandArgs :
        rt = [pc |-> "main", raw_args |-> global \o <<command>> \o args,
              status |-> "", invoked |-> <<>>, handler |-> "", result |-> ""]

RtMain ==
    /\ rt.pc = "main"
    /\ \E status \in CrunStatuses, handler_result \in {"Ok", "Err"} :
        LET out == main(rt.raw_args, status, handler_result)
        IN  rt' = [rt EXCEPT !.pc = "returned",
                             !.status = IF out.invoked = <<>> THEN "" ELSE status,
                             !.invoked = out.invoked,
                             !.handler = out.handler,
                             !.result = out.result]
    /\ UNCHANGED <<input, host, inv, hist, xf, mg, vc, fb, ut, ex, co, sp, cc>>

-----------------------------------------------------------------------------
(* exec *)

ExIdle == [pc |-> "idle"]

\* str::parse::<u32>() on the strings that are used as timeouts: an optional
\* "+" and decimal digits, within 32 bits.  <<n>> is Some(n), <<>> is an error
parse_u32(t) ==
    LET values == [x \in {"0", "30", "007", "+5", "60"} |->
                      CASE x = "0" -> 0 [] x = "30" -> 30 [] x = "007" -> 7
                        [] x = "+5" -> 5 [] x = "60" -> 60]
    IN  IF t \in DOMAIN values THEN <<values[t]>> ELSE <<>>

\* ExecArgs with its defaults; error is set when clap rejects the arguments
ExecArgs ==
    [user |-> "root", user_given |-> FALSE, container |-> FALSE, timeout |-> <<>>,
     command |-> <<>>, error |-> FALSE]

\* ExecArgs::parse_from: options are read up to the first word, which starts
\* the trailing command (trailing_var_arg)
RECURSIVE exec_args_parse_from(_, _)
exec_args_parse_from(args, tokens) ==
    IF tokens = <<>> THEN args
    ELSE IF Head(tokens) = "--container"
    THEN exec_args_parse_from([args EXCEPT !.container = TRUE], Tail(tokens))
    ELSE IF Head(tokens) = "--as"
    THEN IF Len(tokens) < 2 THEN [args EXCEPT !.error = TRUE]
         ELSE exec_args_parse_from(
                  [args EXCEPT !.user = tokens[2], !.user_given = TRUE],
                  Tail(Tail(tokens)))
    ELSE IF Head(tokens) = "--timeout"
    THEN IF Len(tokens) < 2 \/ parse_u32(tokens[2]) = <<>>
         THEN [args EXCEPT !.error = TRUE]
         ELSE exec_args_parse_from([args EXCEPT !.timeout = parse_u32(tokens[2])],
                                   Tail(Tail(tokens)))
    ELSE [args EXCEPT !.command = tokens]

\* conflicts_with = "user"
exec_args(original_command) ==
    LET args == exec_args_parse_from(ExecArgs, original_command)
    IN  IF args.container /\ args.user_given THEN [args EXCEPT !.error = TRUE]
        ELSE args

\* Faulty variant: the environment variable wins over --timeout
exec_timeout_env_first(args, env) ==
    IF env # <<>>
    THEN (IF parse_u32(env[1]) # <<>>
          THEN [ok |-> TRUE, timeout |-> parse_u32(env[1])[1]]
          ELSE [ok |-> FALSE, timeout |-> 0])
    ELSE IF args.timeout # <<>> THEN [ok |-> TRUE, timeout |-> args.timeout[1]]
    ELSE [ok |-> TRUE, timeout |-> 0]

\* build_command: the timeout.  env is CRUN_VM_EXEC_TIMEOUT, <<>> when unset
exec_timeout(args, env) ==
    IF args.timeout # <<>> THEN [ok |-> TRUE, timeout |-> args.timeout[1]]
    ELSE IF env # <<>>
    THEN (IF parse_u32(env[1]) # <<>>
          THEN [ok |-> TRUE, timeout |-> parse_u32(env[1])[1]]
          ELSE [ok |-> FALSE, timeout |-> 0])
    ELSE [ok |-> TRUE, timeout |-> 0]

\* Result: [ok, error, command]
build_command(original_command, env) ==
    LET args == exec_args(original_command)
        timeout == exec_timeout(args, env)
        command == IF args.command # <<>> /\ Head(args.command) = ""
                   THEN Tail(args.command) ELSE args.command
    IN  IF args.error
        THEN [ok |-> FALSE, error |-> "usage", command |-> <<>>]
        ELSE IF ~timeout.ok
        THEN [ok |-> FALSE, error |-> "env var CRUN_VM_EXEC_TIMEOUT has invalid value",
              command |-> <<>>]
        ELSE [ok |-> TRUE, error |-> "",
              command |->
                  IF args.container
                  THEN (IF command = <<>> THEN <<"/bin/bash">> ELSE command)
                  ELSE <<"/crun-vm/exec.sh", ToString(timeout.timeout), args.user>>
                       \o command]

ExUsers == {<<>>, <<"fedora">>}
ExTimeouts == {<<>>, <<"30">>, <<"007">>, <<"abc">>}
ExEnvs == {<<>>, <<"60">>, <<"+5">>, <<"abc">>, <<"">>}
ExCommands == {<<>>, <<"">>, <<"", "ls">>, <<"ls", "-l">>, <<"ls", "--container">>}

\* The options of one exec, each at most once, in any order
ExOptions(user, container, timeout) ==
    LET as == IF user = <<>> THEN <<>> ELSE <<"--as", user[1]>>
        c == IF container THEN <<"--container">> ELSE <<>>
        t == IF timeout = <<>> THEN <<>> ELSE <<"--timeout", timeout[1]>>
    IN  {as \o c \o t, as \o t \o c, c \o as \o t, c \o t \o as,
         t \o as \o c, t \o c \o as}

ExInit ==
    \E user \in ExUsers, container \in BOOLEAN, timeout \in ExTimeouts,
       command \in ExCommands, env \in ExEnvs :
        \E options \in ExOptions(user, container, timeout) :
            ex = [pc |-> "build_command",
                  given |-> [user |-> user, container |-> container,
                             timeout |-> timeout, command |-> command],
                  original_command |-> options \o command,
                  env |-> env,
                  out |-> [ok |-> FALSE, error |-> "", command |-> <<>>]]

\* exec(): process.set_args(Some(build_command(command)?))
ExBuildCommand ==
    /\ ex.pc = "build_command"
    /\ ex' = [ex EXCEPT !.pc = "returned",
                        !.out = build_command(ex.original_command, ex.env)]
    /\ UNCHANGED <<input, host, inv, hist, xf, mg, vc, fb, ut, rt, co, sp, cc>>

-----------------------------------------------------------------------------
(* CustomOptions::from_spec *)

\* Utf8Path::is_absolute()
is_absolute(path) == path # <<>> /\ path[1] = "/"

\* all_are_absolute() of a sequence of paths (an Option is one of 0 or 1 path)
all_are_absolute(paths) == \A i \in 1..Len(paths) : is_absolute(paths[i])

blockdev_paths(options) ==
    Concat([i \in 1..Len(options.blockdev) |->
                <<options.blockdev[i].source, options.blockdev[i].target>>])

\* The mapping by the mount with the longest destination among those matching
path_in_container_into_path_in_host_longest(spec, path, host_paths) ==
    LET matching == SelectSeq(spec.mounts,
                        LAMBDA m : m.source # <<>> /\ StartsWith(path, m.destination))
        longest == CHOOSE i \in 1..Len(matching) :
                       \A j \in 1..Len(matching) :
                           Len(matching[j].destination) <= Len(matching[i].destination)
        path_in_host ==
            matching[longest].source[1]
            \o SubSeq(path, Len(matching[longest].destination) + 1, Len(path))
    IN  IF matching = <<>> \/ path_in_host \notin host_paths
        THEN [ok |-> FALSE, path |-> path]
        ELSE [ok |-> TRUE, path |-> path_in_host]

\* The mounts with a source whose destination the path starts with, .last();
\* host_paths are the paths that exist on the host.  Result: [ok, path]
path_in_container_into_path_in_host(spec, path, host_paths) ==
    LET matching == SelectSeq(spec.mounts,
                        LAMBDA m : m.source # <<>> /\ StartsWith(path, m.destination))
        mount == matching[Len(matching)]
        relative_path == SubSeq(path, Len(mount.destination) + 1, Len(path))
        path_in_host == mount.source[1] \o relative_path
    IN  IF matching = <<>> \/ path_in_host \notin host_paths
        THEN [ok |-> FALSE, path |-> path]
        ELSE [ok |-> TRUE, path |-> path_in_host]

\* The Kubernetes arm's loops: every path of the options is mapped, in order
paths_into_paths_in_host(spec, paths, host_paths) ==
    LET mapped == [i \in 1..Len(paths) |->
                      path_in_container_into_path_in_host(spec, paths[i], host_paths)]
    IN  [ok |-> \A i \in 1..Len(paths) : mapped[i].ok,
         paths |-> [i \in 1..Len(paths) |-> mapped[i].path]]

\* Faulty variant: every engine needs absolute paths
needs_absolute_custom_opt_paths_always(env) == TRUE

\* RuntimeEnv::needs_absolute_custom_opt_paths()
needs_absolute_custom_opt_paths(env) == env \in {"Docker", "Kubernetes"}

\* The paths that the ensure!() of the engine's arm wants absolute
paths_to_be_absolute(env, options) ==
    IF ~needs_absolute_custom_opt_paths(env) THEN <<>>
    ELSE blockdev_paths(options) \o options.cloud_init \o options.ignition
         \o (IF env = "Docker" THEN options.vfio_pci \o options.vfio_pci_mdev ELSE <<>>)
         \o options.merge_libvirt_xml

\* VfioPciAddress::from_path(), VfioPciMdevUuid::from_path(): the path is one of
\* a device in sysfs
vfio_from_path(path) ==
    Len(path) >= 3 /\ SubSeq(path, Len(path) - 2, Len(path) - 1) = <<"devices", "pci0000:00">>

\* spec is [mounts], options the parsed CustomOptionsRaw.  Result: [ok, error,
\* options]
from_spec(spec, env, options, host_paths) ==
    LET blockdevs == paths_into_paths_in_host(spec, blockdev_paths(options), host_paths)
        cloud_init == paths_into_paths_in_host(spec, options.cloud_init, host_paths)
        ignition == paths_into_paths_in_host(spec, options.ignition, host_paths)
        merge_libvirt_xml ==
            paths_into_paths_in_host(spec, options.merge_libvirt_xml, host_paths)
        in_host ==
            IF env # "Kubernetes" THEN options
            ELSE [options EXCEPT
                    !.blockdev = [i \in 1..Len(options.blockdev) |->
                                    [options.blockdev[i] EXCEPT
                                        !.source = blockdevs.paths[2 * i - 1],
                                        !.target = blockdevs.paths[2 * i]]],
                    !.cloud_init = cloud_init.paths,
                    !.ignition = ignition.paths,
                    !.merge_libvirt_xml = merge_libvirt_xml.paths]
        Fail(error) == [ok |-> FALSE, error |-> error, options |-> options]
    IN  IF ~all_are_absolute(paths_to_be_absolute(env, options))
        THEN Fail("paths must be absolute")
        ELSE IF env = "Kubernetes"
                /\ (options.vfio_pci # <<>> \/ options.vfio_pci_mdev # <<>>)
        THEN Fail("options --vfio-pci and --vfio-pci-mdev are not allowed")
        ELSE IF env = "Kubernetes"
                /\ ~(blockdevs.ok /\ cloud_init.ok /\ ignition.ok /\ merge_libvirt_xml.ok)
        THEN Fail("can't find")
        ELSE IF \E i \in 1..Len(options.vfio_pci \o options.vfio_pci_mdev) :
                    ~vfio_from_path((options.vfio_pci \o options.vfio_pci_mdev)[i])
        THEN Fail("not a valid vfio-pci device sysfs path")
        ELSE [ok |-> TRUE, error |-> "", options |-> in_host]

CoIdle == [pc |-> "idle"]

\* CustomOptionsRaw with no option given
CustomOptionsRaw ==
    [blockdev |-> <<>>, persistent |-> FALSE, cloud_init |-> <<>>, ignition |-> <<>>,
     vfio_pci |-> <<>>, vfio_pci_mdev |-> <<>>, merge_libvirt_xml |-> <<>>,
     emulated |-> FALSE]

\* The flag that create() reads as custom_options.emulated
emulated_option == [name |-> "emulated", value |-> TRUE]

CoInContainer == Abs(<<"data", "sub", "ci">>)
CoUnmounted == Abs(<<"etc", "ci">>)
CoRelative == <<"ci">>
CoVfio == Abs(<<"sys", "devices", "pci0000:00", "0000:00:01.0">>)
CoVfioRelative == <<"devices", "pci0000:00", "0000:00:01.0">>
CoVfioInvalid == Abs(<<"sys", "class", "net">>)

\* The options a command line is made of, in the order they are applied
CoOptionPool ==
    << [name |-> "blockdev",
        value |-> [source |-> CoInContainer, target |-> CoInContainer, format |-> "raw"]],
       [name |-> "blockdev",
        value |-> [source |-> CoRelative, target |-> CoInContainer, format |-> "raw"]],
       [name |-> "blockdev",
        value |-> [source |-> CoInContainer, target |-> CoRelative, format |-> "raw"]],
       [name |-> "persistent", value |-> TRUE],
       [name |-> "cloud_init", value |-> CoInContainer],
       [name |-> "cloud_init", value |-> CoUnmounted],
       [name |-> "cloud_init", value |-> CoRelative],
       [name |-> "ignition", value |-> CoInContainer],
       [name |-> "ignition", value |-> CoRelative],
       [name |-> "vfio_pci", value |-> CoVfio],
       [name |-> "vfio_pci", value |-> CoVfioRelative],
       [name |-> "vfio_pci", value |-> CoVfioInvalid],
       [name |-> "vfio_pci_mdev", value |-> CoVfio],
       [name |-> "vfio_pci_mdev", value |-> CoVfioRelative],
       [name |-> "merge_libvirt_xml", value |-> CoInContainer],
       [name |-> "merge_libvirt_xml", value |-> CoRelative],
       emulated_option >>

\* clap: a flag sets its field, an Option takes the last value, a Vec collects
parse_option(options, option) ==
    IF option.name \in {"persistent", "emulated"}
    THEN [options EXCEPT ![option.name] = TRUE]
    ELSE IF option.name \in {"cloud_init", "ignition"}
    THEN [options EXCEPT ![option.name] = <<option.value>>]
    ELSE [options EXCEPT ![option.name] = Append(@, option.value)]

RECURSIVE parse_from(_, _, _)
parse_from(options, chosen, i) ==
    IF i > Len(CoOptionPool) THEN options
    ELSE parse_from(IF i \in chosen THEN parse_option(options, CoOptionPool[i])
                    ELSE options,
                    chosen, i + 1)

\* Mount lists of a Kubernetes pod: two volumes, one below the other, in both
\* orders, and one of them alone
CoMountLists ==
    LET data == [source |-> <<Abs(<<"host", "data">>)>>, destination |-> Abs(<<"data">>)]
        sub == [source |-> <<Abs(<<"host", "sub">>)>>,
                destination |-> Abs(<<"data", "sub">>)]
        proc == [source |-> <<>>, destination |-> Abs(<<>>)]
    IN  { <<proc, data, sub>>, <<proc, sub, data>>, <<proc, data>> }

\* What exists on the host
CoHostPaths ==
    { {Abs(<<"host", "data", "sub", "ci">>), Abs(<<"host", "sub", "ci">>)},
      {Abs(<<"host", "data", "sub", "ci">>)} }

CapabilitySets == {"bounding", "effective", "inheritable", "permitted", "ambient"}

\* The process capabilities of a spec with CAP_SYS_ADMIN in the given sets
capabilities_with_sys_admin_in(sets) ==
    [set \in CapabilitySets |->
        IF set \in sets THEN {"CAP_CHOWN", "CAP_SYS_ADMIN"} ELSE {"CAP_CHOWN"}]

\* The any_is_cap_sys_admin checks of ensure_unprivileged
any_is_cap_sys_admin(capabilities) ==
    \E set \in CapabilitySets : "CAP_SYS_ADMIN" \in capabilities[set]

\* is_bootc_container(): [ok, is_bootc_container]
is_bootc_container(has_bootc_install, is_podman_bundle_path, env) ==
    IF has_bootc_install /\ ~(env = "Other" /\ is_podman_bundle_path)
    THEN [ok |-> FALSE, is_bootc_container |-> TRUE]
    ELSE [ok |-> TRUE, is_bootc_container |-> has_bootc_install]

CoInit ==
    \E env \in {"Docker", "Kubernetes", "Other"},
       mounts \in CoMountLists, host_paths \in CoHostPaths,
       readonly \in BOOLEAN, sets \in {{}, {"bounding"}, {"ambient"}},
       has_bootc_install \in BOOLEAN, is_podman_bundle_path \in BOOLEAN,
       chosen \in {c \in SUBSET (1..Len(CoOptionPool)) : Cardinality(c) <= MaxOptions} :
        /\ co = [pc |-> "ensure_unprivileged",
                 spec |-> [mounts |-> mounts,
                           root |-> [readonly |-> readonly],
                           capabilities |-> capabilities_with_sys_admin_in(sets)],
                 env |-> env,
                 host_paths |-> host_paths,
                 has_bootc_install |-> has_bootc_install,
                 is_podman_bundle_path |-> is_podman_bundle_path,
                 args |-> parse_from(CustomOptionsRaw, chosen, 1),
                 custom_options |-> CustomOptionsRaw,
                 is_bootc_container |-> FALSE,
                 error |-> "",
                 fs_mutated |-> FALSE]

CoFail(error) == co' = [co EXCEPT !.pc = "failed", !.error = error]

\* create(): Spec::load, ensure_unprivileged
CoEnsureUnprivileged ==
    /\ co.pc = "ensure_unprivileged"
    /\ IF ensure_unprivileged(
              [cap_sys_admin |-> any_is_cap_sys_admin(co.spec.capabilities)])
       THEN co' = [co EXCEPT !.pc = "from_spec"]
       ELSE CoFail("crun-vm is incompatible with privileged containers")
    /\ UNCHANGED <<input, host, inv, hist, xf, mg, vc, fb, ut, rt, ex, sp, cc>>

\* create(): RuntimeEnv::current, CustomOptions::from_spec
CoFromSpec ==
    /\ co.pc = "from_spec"
    /\ LET result == from_spec(co.spec, co.env, co.args, co.host_paths)
       IN  IF result.ok
           THEN co' = [co EXCEPT !.pc = "is_bootc_container",
                                 !.custom_options = result.options]
           ELSE CoFail(result.error)
    /\ UNCHANGED <<input, host, inv, hist, xf, mg, vc, fb, ut, rt, ex, sp, cc>>

\* create(): is_bootc_container and the ensure!() on --emulated that follows it
CoIsBootcContainer ==
    /\ co.pc = "is_bootc_container"
    /\ LET result == is_bootc_container(co.has_bootc_install,
                                        co.is_podman_bundle_path, co.env)
       IN  IF ~result.ok
           THEN CoFail("bootc containers are only supported with Podman")
           ELSE IF result.is_bootc_container /\ co.custom_options.emulated
           THEN CoFail("--emulated is incompatible with bootable containers")
           ELSE co' = [co EXCEPT !.pc = "create_priv_dir",
                                 !.is_bootc_container = result.is_bootc_container]
    /\ UNCHANGED <<input, host, inv, hist, xf, mg, vc, fb, ut, rt, ex, sp, cc>>

\* create(): fs::create_dir_all(&priv_dir_path), the first change create makes
\* to the file system; the rest of create follows it
CoCreatePrivDir ==
    /\ co.pc = "create_priv_dir"
    /\ co' = [co EXCEPT !.pc = "set_up", !.fs_mutated = TRUE]
    /\ UNCHANGED <<input, host, inv, hist, xf, mg, vc, fb, ut, rt, ex, sp, cc>>

-----------------------------------------------------------------------------
(* set_up_security, adjust_container_rlimits_and_resources *)

SpIdle == [pc |-> "idle"]

\* The rule that set_up_security builds
SeccompAllowRule ==
    [names |-> {"mount", "pivot_root", "umount2", "unshare"}, action |-> "SCMP_ACT_ALLOW"]

RLIMIT_NOFILE_VALUE == 262144

\* SpecExt::process_capabilities_insert_beip: the capability is inserted into
\* the bounding, effective, inheritable and permitted sets, each created when
\* absent; as every Option here, <<>> is None and <<x>> is Some(x)
process_capabilities_insert_beip(spec, capability) ==
    LET capabilities ==
            IF spec.process.capabilities = <<>>
            THEN [set \in CapabilitySets |-> <<>>]
            ELSE spec.process.capabilities[1]
        insert_cap(to) == IF to = <<>> THEN <<{capability}>> ELSE <<to[1] \cup {capability}>>
    IN  [spec EXCEPT !.process.capabilities =
            <<[set \in CapabilitySets |->
                  IF set = "ambient" THEN capabilities[set]
                  ELSE insert_cap(capabilities[set])]>>]

\* SpecExt::linux_seccomp_syscalls_push: without a seccomp profile nothing is
\* added, with one the rule is pushed onto its syscalls (created when absent)
linux_seccomp_syscalls_push(spec, linux_syscall) ==
    IF spec.linux.seccomp = <<>> THEN spec
    ELSE LET syscalls == IF spec.linux.seccomp[1].syscalls = <<>> THEN <<>>
                         ELSE spec.linux.seccomp[1].syscalls[1]
         IN  [spec EXCEPT !.linux.seccomp =
                 <<[spec.linux.seccomp[1] EXCEPT
                       !.syscalls = <<Append(syscalls, linux_syscall)>>]>>]

set_up_security(spec) ==
    linux_seccomp_syscalls_push(
        process_capabilities_insert_beip(spec, "CAP_SYS_CHROOT"), SeccompAllowRule)

adjust_container_rlimits_and_resources(spec) ==
    LET with_rlimits ==
            IF spec.process.rlimits = <<>> THEN spec
            ELSE [spec EXCEPT !.process.rlimits =
                    <<Append(SelectSeq(spec.process.rlimits[1],
                                       LAMBDA rl : rl.typ # "RLIMIT_NOFILE"),
                             [typ |-> "RLIMIT_NOFILE", hard |-> RLIMIT_NOFILE_VALUE,
                              soft |-> RLIMIT_NOFILE_VALUE])>>]
    IN  IF spec.linux.resources = <<>> THEN with_rlimits
        ELSE [with_rlimits EXCEPT !.linux.resources =
                <<[spec.linux.resources[1] EXCEPT !.cpu = <<>>, !.memory = <<>>]>>]

\* Sequences of at most n elements of the set S
RECURSIVE SeqsUpTo(_, _)
SeqsUpTo(S, n) ==
    IF n = 0 THEN {<<>>}
    ELSE LET shorter == SeqsUpTo(S, n - 1)
         IN  shorter \cup {Append(q, x) : q \in shorter, x \in S}

SpEngineRules ==
    { [names |-> {"read", "write"}, action |-> "SCMP_ACT_ALLOW"],
      [names |-> {"mount"}, action |-> "SCMP_ACT_ERRNO"],
      [names |-> {"unshare", "clone"}, action |-> "SCMP_ACT_ALLOW"] }

SpEngineRlimits ==
    { [typ |-> "RLIMIT_NOFILE", hard |-> 1024, soft |-> 1024],
      [typ |-> "RLIMIT_NOFILE", hard |-> 1048576, soft |-> 4096],
      [typ |-> "RLIMIT_NPROC", hard |-> 4096, soft |-> 4096],
      [typ |-> "RLIMIT_CORE", hard |-> 0, soft |-> 0] }

SpSeccomps ==
    {<<>>, <<[defaultAction |-> "SCMP_ACT_ERRNO", syscalls |-> <<>>]>>}
    \cup {<<[defaultAction |-> "SCMP_ACT_ERRNO", syscalls |-> <<rules>>]>> :
              rules \in SeqsUpTo(SpEngineRules, MaxRules)}

SpInit ==
    \E seccomp \in SpSeccomps,
       rlimits \in {<<>>} \cup {<<q>> : q \in SeqsUpTo(SpEngineRlimits, MaxRlimits)},
       capabilities \in {<<>>, <<[set \in CapabilitySets |-> <<>>]>>,
                         <<[set \in CapabilitySets |-> <<{"CAP_CHOWN"}>>]>>},
       resources \in {<<>>, <<[cpu |-> <<[quota |-> 1, period |-> 1]>>,
                               memory |-> <<[limit |-> 1]>>, devices |-> <<>>]>>} :
        LET spec == [process |-> [capabilities |-> capabilities, rlimits |-> rlimits],
                     linux |-> [seccomp |-> seccomp, resources |-> resources]]
        IN  sp = [pc |-> "set_up_security", input |-> spec, spec |-> spec]

\* create(): set_up_security(&mut spec)
SpSetUpSecurity ==
    /\ sp.pc = "set_up_security"
    /\ sp' = [sp EXCEPT !.pc = "adjust_container_rlimits_and_resources",
                        !.spec = set_up_security(sp.spec)]
    /\ UNCHANGED <<input, host, inv, hist, xf, mg, vc, fb, ut, rt, ex, co, cc>>

\* create(): adjust_container_rlimits_and_resources(&mut spec)
SpAdjustContainerRlimitsAndResources ==
    /\ sp.pc = "adjust_container_rlimits_and_resources"
    /\ sp' = [sp EXCEPT !.pc = "adjusted",
                        !.spec = adjust_container_rlimits_and_resources(sp.spec)]
    /\ UNCHANGED <<input, host, inv, hist, xf, mg, vc, fb, ut, rt, ex, co, cc>>

-----------------------------------------------------------------------------
(* Concurrent create invocations of one container: each is a process of its
   own that runs create() to completion; they share the container root on the
   host.  The stages are those of create that read is_first_create or the
   host's mount table; the stages in between act on the invocation's own copy
   of the spec.  A stage is one step: the only operation of create whose
   atomicity the runs rely on is the open(2) with O_CREAT | O_EXCL of
   is_first_create, a single system call. *)

CcProcs == 1..MaxConcurrentCreates

CcIdle == [pc |-> "idle"]

CcStages ==
    SelectSeq(CreateStages,
              LAMBDA stage : stage \in { "is_first_create", "set_up_vm_image",
                                         "set_up_ssh_key_pair",
                                         "set_up_first_boot_config",
                                         "set_up_libvirt_domain_xml" })

CcNextStage(stage) ==
    LET i == CHOOSE k \in 1..Len(CcStages) : CcStages[k] = stage IN
    IF i = Len(CcStages) THEN "done" ELSE CcStages[i + 1]

\* ran: the one-time steps this invocation has executed
CcInit ==
    \E persistent \in BOOLEAN, is_bootc \in BOOLEAN, use_user_key_pair \in BOOLEAN :
        cc = [persistent |-> persistent, is_bootc |-> is_bootc,
              use_user_key_pair |-> use_user_key_pair,
              host |-> HostInit,
              proc |-> [p \in CcProcs |->
                          [pc |-> CcStages[1], observed |-> FALSE,
                           is_first_create |-> FALSE, ran |-> {}]]]

CcOk(p, stage, ran) ==
    [cc.proc EXCEPT ![p].pc = CcNextStage(stage), ![p].ran = @ \cup ran]

CcErr(p) == [cc.proc EXCEPT ![p].pc = "failed"]

\* let is_first_create = is_first_create(&spec)?;
CcIsFirstCreate ==
    /\ \E p \in CcProcs :
        /\ cc.proc[p].pc = "is_first_create"
        /\ \/ cc' = [cc EXCEPT
                        !.host.create_ran = TRUE,
                        !.proc = [CcOk(p, "is_first_create", {}) EXCEPT
                                    ![p].observed = TRUE,
                                    ![p].is_first_create = is_first_create(cc.host)]]
           \/ cc' = [cc EXCEPT !.proc = CcErr(p)]
    /\ UNCHANGED <<input, host, inv, hist, xf, mg, vc, fb, ut, rt, ex, co, sp>>

CcSetUpVmImage ==
    /\ \E p \in CcProcs, fail_at \in VmImageFailures :
        LET r == set_up_vm_image(cc.host, cc.persistent, cc.proc[p].is_first_create,
                                 cc.is_bootc, fail_at)
            ran == IF r.host.overlay_image > cc.host.overlay_image
                   THEN {"overlay_image"} ELSE {}
        IN  /\ cc.proc[p].pc = "set_up_vm_image"
            /\ cc' = [cc EXCEPT
                        !.host = r.host,
                        !.proc = IF r.ok THEN CcOk(p, "set_up_vm_image", ran)
                                 ELSE CcErr(p)]
    /\ UNCHANGED <<input, host, inv, hist, xf, mg, vc, fb, ut, rt, ex, co, sp>>

CcSetUpSshKeyPair ==
    /\ \E p \in CcProcs, fail_at \in SshFailures :
        LET r == set_up_ssh_key_pair(cc.host, cc.use_user_key_pair,
                                     cc.proc[p].is_first_create, fail_at)
            ran == IF r.host.ssh_keygen > cc.host.ssh_keygen
                   THEN {"ssh_keygen"} ELSE {}
        IN  /\ cc.proc[p].pc = "set_up_ssh_key_pair"
            /\ cc' = [cc EXCEPT
                        !.host = r.host,
                        !.proc = IF r.ok THEN CcOk(p, "set_up_ssh_key_pair", ran)
                                 ELSE CcErr(p)]
    /\ UNCHANGED <<input, host, inv, hist, xf, mg, vc, fb, ut, rt, ex, co, sp>>

\* if is_first_create { set_up_first_boot_config(..)?; .. }
CcSetUpFirstBootConfig ==
    /\ \E p \in CcProcs, ok \in BOOLEAN :
        /\ cc.proc[p].pc = "set_up_first_boot_config"
        /\ cc' = IF ~cc.proc[p].is_first_create
                 THEN [cc EXCEPT !.proc = CcOk(p, "set_up_first_boot_config", {})]
                 ELSE IF ok
                 THEN [cc EXCEPT
                         !.host.first_boot = @ + 1,
                         !.proc = CcOk(p, "set_up_first_boot_config", {"first_boot"})]
                 ELSE [cc EXCEPT !.proc = CcErr(p)]
    /\ UNCHANGED <<input, host, inv, hist, xf, mg, vc, fb, ut, rt, ex, co, sp>>

\* if is_first_create { ..; set_up_libvirt_domain_xml(..)?; }: the runs are
\* counted, the document is that of CreateSetUpLibvirtDomainXml
CcSetUpLibvirtDomainXml ==
    /\ \E p \in CcProcs, ok \in BOOLEAN :
        /\ cc.proc[p].pc = "set_up_libvirt_domain_xml"
        /\ cc' = IF ~cc.proc[p].is_first_create
                 THEN [cc EXCEPT !.proc = CcOk(p, "set_up_libvirt_domain_xml", {})]
                 ELSE IF ok
                 THEN [cc EXCEPT
                         !.host.domain_xml = @ + 1,
                         !.proc = CcOk(p, "set_up_libvirt_domain_xml", {"domain_xml"})]
                 ELSE [cc EXCEPT !.proc = CcErr(p)]
    /\ UNCHANGED <<input, host, inv, hist, xf, mg, vc, fb, ut, rt, ex, co, sp>>

-----------------------------------------------------------------------------
(* Specifications *)

Next ==
    \/ BeginCreate
    \/ CreateLoad
    \/ CreateEnsureUnprivileged
    \/ CreateCustomOptions
    \/ CreateIsBootcContainer
    \/ CreatePrivDir
    \/ CreateSetUpContainerRoot
    \/ CreateIsFirstCreate
    \/ CreateSetUpVmImage
    \/ CreateSetUpMounts
    \/ CreateSetUpDevices
    \/ CreateSetUpBlockdevs
    \/ CreateSetUpExtra
    \/ CreateSetUpSecurity
    \/ CreateSetUpSshKeyPair
    \/ CreateSetUpFirstBootConfig
    \/ CreateSetUpLibvirtDomainXml
    \/ CreateAdjustRlimits
    \/ CreateSave
    \/ CreateCrun
    \/ CreateBootcPrepare
    \/ Return
    \/ BeginDelete
    \/ DeleteGetRootPath
    \/ DeleteCrun
    \/ DeleteEnsureUnmountedImageFile
    \/ DeleteEnsureUnmountedImageDir
    \/ GuestWrite
    \/ ContainerWrite

\* Every run of a single function is idle, but for those of the except set
Idle(except) ==
    /\ "lc" \in except \/ LcIdle
    /\ "xf" \in except \/ xf = XfIdle
    /\ "mg" \in except \/ mg = MgIdle
    /\ "vc" \in except \/ vc = VcIdle
    /\ "fb" \in except \/ fb = FbIdle
    /\ "ut" \in except \/ ut = UtIdle
    /\ "rt" \in except \/ rt = RtIdle
    /\ "ex" \in except \/ ex = ExIdle
    /\ "co" \in except \/ co = CoIdle
    /\ "sp" \in except \/ sp = SpIdle
    /\ "cc" \in except \/ cc = CcIdle

\* The life cycle of one container: create and delete invocations in sequence
Init == LcInit /\ Idle({"lc"})
Spec == Init /\ [][Next]_vars

\* The spec transformation on arbitrary input specs
InitTransform == XfInit /\ Idle({"xf"})
NextTransform == XfAddMount \/ XfCreate
SpecTransform == InitTransform /\ [][NextTransform]_vars

\* The merge of one overlay into the base domain XML
InitMerge == MgInit /\ Idle({"mg"})
NextMerge == MgLoadBase \/ MgLoadOverlay \/ MgMerge \/ MgMergeAgain
SpecMerge == InitMerge /\ [][NextMerge]_vars

\* The vCPU count of the specs an engine can pass
InitVcpu == VcInit /\ Idle({"vc"})
NextVcpu == VcSetCpu \/ VcGetVcpuCount
SpecVcpu == InitVcpu /\ [][NextVcpu]_vars

\* The first-boot configs generated from the configs users can pass
InitFirstBoot == FbInit /\ Idle({"fb"})
NextFirstBoot ==
    \/ FbUserEntry
    \/ FbApplyToCloudInitConfig
    \/ FbApplyToIgnitionConfig
    \/ FbSetUpLibvirtDomainXml
SpecFirstBoot == InitFirstBoot /\ [][NextFirstBoot]_vars

\* The search for the VM image in the container image's directories
InitCustomOptions == CoInit /\ Idle({"co"})
NextCustomOptions ==
    CoEnsureUnprivileged \/ CoFromSpec \/ CoIsBootcContainer \/ CoCreatePrivDir
SpecCustomOptions == InitCustomOptions /\ [][NextCustomOptions]_vars

InitMain == RtInit /\ Idle({"rt"})
NextMain == RtMain
SpecMain == InitMain /\ [][NextMain]_vars

InitExec == ExInit /\ Idle({"ex"})
NextExec == ExBuildCommand
SpecExec == InitExec /\ [][NextExec]_vars

InitSecurity == SpInit /\ Idle({"sp"})
NextSecurity == SpSetUpSecurity \/ SpAdjustContainerRlimitsAndResources
SpecSecurity == InitSecurity /\ [][NextSecurity]_vars

\* Create invocations of one container that run at the same time
InitConcurrent == CcInit /\ Idle({"cc"})
NextConcurrent ==
    \/ CcIsFirstCreate
    \/ CcSetUpVmImage
    \/ CcSetUpSshKeyPair
    \/ CcSetUpFirstBootConfig
    \/ CcSetUpLibvirtDomainXml
SpecConcurrent == InitConcurrent /\ [][NextConcurrent]_vars

InitFindFile == UtInit /\ Idle({"ut"})
NextFindFile == UtAddEntry \/ UtFindSingleFileInDirs
SpecFindFile == InitFindFile /\ [][NextFindFile]_vars

-----------------------------------------------------------------------------
(* Properties of the life cycle (Spec) *)

StagesBeforeCrun ==
    { "load", "ensure_unprivileged", "custom_options", "is_bootc_container",
      "priv_dir", "set_up_container_root", "is_first_create", "set_up_vm_image",
      "set_up_mounts", "set_up_devices", "set_up_blockdevs", "set_up_extra",
      "set_up_security", "set_up_ssh_key_pair", "set_up_first_boot_config",
      "set_up_libvirt_domain_xml", "adjust_rlimits", "save" }

\* C1: in create, crun has been invoked only if every earlier stage of the
\* transformation returned success; an invocation in which one of them failed
\* ends without having invoked crun.
C1_CrunOnlyAfterAllStages ==
    inv.cmd = "create" =>
        /\ inv.crun_invoked => StagesBeforeCrun \subseteq inv.done
        /\ inv.pc = "failed" /\ ~(StagesBeforeCrun \subseteq inv.done)
              => ~inv.crun_invoked

\* A create that failed in the middle of the transformation and returned
\* without invoking crun
C1_Witness ==
    /\ inv.cmd = "create"
    /\ inv.pc = "failed"
    /\ "set_up_vm_image" \in inv.done
    /\ "save" \notin inv.done
    /\ ~inv.crun_invoked

TrueResults(results) ==
    Cardinality({i \in 1..Len(results) : results[i].result})

\* C2: over the create invocations of one container, is_first_create returns
\* true exactly when it creates the sentinel (the file did not exist), so in at
\* most one invocation and in none after it; the overlay image, the SSH key
\* pair, the first-boot configs and the domain XML are each generated at most
\* once, and only when is_first_create has returned true.
C2_OneTimeStepsOnce ==
    LET results == hist.first_create IN
    /\ \A i \in 1..Len(results) : results[i].result = ~results[i].existed
    /\ \A i, j \in 1..Len(results) : i < j /\ results[i].result => ~results[j].result
    /\ TrueResults(results) <= 1
    /\ host.overlay_image <= TrueResults(results)
    /\ host.ssh_keygen <= TrueResults(results)
    /\ host.first_boot <= TrueResults(results)
    /\ host.domain_xml <= TrueResults(results)
    /\ TrueResults(results) = 1 => host.create_ran

\* A second create found the sentinel, after the first one ran the one-time steps
C2_Witness ==
    /\ Len(hist.first_create) >= 2
    /\ hist.first_create[1].result
    /\ ~hist.first_create[2].result
    /\ host.domain_xml = 1
    /\ host.first_boot = 1
    /\ inv.cmd = "create" /\ inv.pc = "done"

\* C3: once a create has succeeded, a later create on the same bundle fails
\* only when an operation of its environment fails, and every successful
\* create saves the same config.json.
C3_ReinvocationIdempotent ==
    /\ Len(hist.configs) >= 1 /\ inv.cmd = "create" /\ inv.pc = "failed"
          => inv.error = "env"
    /\ \A i, j \in 1..Len(hist.configs) : hist.configs[i] = hist.configs[j]

\* C4 as claimed: when delete hands the deletion to crun, neither the image
\* file nor the image directory is a mountpoint any more.
C4_UnmountedBeforeCrun ==
    inv.cmd = "delete" /\ inv.crun_invoked => ~inv.mounted_at_crun

\* C4 as amended: delete hands the deletion to crun first; the image file and
\* the image directory are unmounted only after crun returned success (and the
\* root path was known), and when delete then returns success neither path is
\* a mountpoint.
C4_UnmountAfterCrun ==
    inv.cmd = "delete" =>
        /\ inv.pc \in {"ensure_unmounted_image_file", "ensure_unmounted_image_dir"}
              => "crun" \in inv.done
        /\ inv.done \cap {"ensure_unmounted_image_file", "ensure_unmounted_image_dir"} # {}
              => "crun" \in inv.done /\ inv.root_path
        /\ inv.pc = "done" /\ inv.root_path
              => /\ "crun" \in inv.done
                 /\ ~is_mountpoint_image_dir(host)
                 /\ ~is_mountpoint_image_file(host)

\* A delete that found the image directory mounted when it invoked crun and
\* has unmounted it afterwards
C4_Witness ==
    /\ inv.cmd = "delete"
    /\ inv.pc = "done"
    /\ inv.root_path
    /\ inv.mounted_at_crun
    /\ ~is_mountpoint_image_dir(host)

\* C5: without --persistent every overlay on the image directory has no upper
\* layer, the guest's first disk is the qcow2 overlay image, and the user's
\* image file is never written to, whatever the guest and the container
\* write; with --persistent the guest's first disk is the image itself and the
\* overlay's upper layer is the image's directory.
C5_EphemeralKeepsOriginal ==
    LET first_disk == host.domain[1].disks[1] IN
    /\ ~input.persistent =>
          /\ ~host.orig_image_written
          /\ \A k \in 1..Len(host.image_dir) : host.image_dir[k].upperdir = <<>>
          /\ host.domain # <<>> /\ ~input.is_bootc =>
                first_disk.source = OverlayImagePath /\ first_disk.driver = "qcow2"
    /\ input.persistent =>
          /\ \A k \in 1..Len(host.image_dir) :
                host.image_dir[k].upperdir = <<"priv/image">>
          /\ host.domain # <<>> /\ ~input.is_bootc =>
                first_disk.source = MirrorImagePath

\* An ephemeral VM whose guest has written to its disk
C5_Witness ==
    /\ ~input.persistent
    /\ ~input.is_bootc
    /\ host.image_dir # <<>>
    /\ host.overlay_written
    /\ ~host.orig_image_written

\* C23: the spec that create has saved holds, for every bind mount of the
\* input whose source is a block device, a device-cgroup rule that allows the
\* block device (type b) with the numbers of that device.
C23_BlockDeviceMountsAllowed ==
    host.config # <<>> =>
        \A i \in 1..Len(input.spec.mounts) :
            LET m == input.spec.mounts[i] IN
            m.typ = "bind" /\ FileType(m.source) = "block" =>
                \E j \in 1..Len(host.config[1].cgroup_devices) :
                    LET rule == host.config[1].cgroup_devices[j] IN
                    rule.allow /\ rule.typ = "b" /\ rule.path = m.source

\* C26: whenever a create reaches the delegation to crun, the first-boot
\* configs (cloud-init.iso and ignition.ign, both written by
\* set_up_first_boot_config) and domain.xml have been generated by this or an
\* earlier create of the container, also after creates that failed part-way.
C26_GeneratedBeforeCrun ==
    inv.cmd = "create" /\ (inv.pc = "crun" \/ inv.crun_invoked) =>
        /\ host.first_boot >= 1
        /\ host.domain_xml >= 1
        /\ host.domain # <<>>

\* Every invocation that has returned so far was a create that succeeded
OnlySuccessfulCreates(returned) ==
    /\ Len(hist.configs) = returned
    /\ returned >= 1

\* C27: after any number of successful creates of one container with no
\* delete in between, each mount target of create carries at most one mount:
\* the overlay on the image directory, the bind mount of the image file onto
\* itself and the overlay on root/.ssh.
C27_AtMostOneMountLayer ==
    inv.cmd = "create" /\ inv.pc = "done" /\ OnlySuccessfulCreates(hist.invocations) =>
        /\ Len(host.image_dir) <= 1
        /\ Len(host.image_file) <= 1
        /\ Len(host.ssh) <= 1

\* C28: after one or more successful creates, a delete that returns success
\* leaves none of the mounts of create mounted: not the bind mount of the
\* image file, not the overlay on the image directory, not the overlay on
\* root/.ssh.
C28_NothingMountedAfterDelete ==
    /\ inv.cmd = "delete" /\ inv.pc = "done"
    /\ OnlySuccessfulCreates(hist.invocations - 1)
    => /\ host.image_file = <<>>
       /\ host.image_dir = <<>>
       /\ host.ssh = <<>>

-----------------------------------------------------------------------------
(* Properties of the spec transformation (SpecTransform) *)

XfDone == xf.pc = "done" /\ xf.out.ok

GuestPaths(list) == [i \in 1..Len(list) |-> list[i].path_in_guest]
ContainerPaths(list) == [i \in 1..Len(list) |-> list[i].path_in_container]
Destinations(list) == [i \in 1..Len(list) |-> list[i].destination]

\* The ignore list without /dev
IgnoreListPaths ==
    { Abs(<<"etc", "hostname">>), Abs(<<"etc", "hosts">>),
      Abs(<<"etc", "resolv.conf">>), Abs(<<"proc">>), Abs(<<"run", ".containerenv">>),
      Abs(<<"run", "secrets">>), Abs(<<"sys">>), Abs(<<"sys", "fs", "cgroup">>) }

\* C6: when set_up_mounts succeeds, every mount whose destination is not on
\* the ignore list went to exactly one of virtiofs, block-device, tmpfs
\* (listed under its destination as guest path) or passthrough (kept in the
\* rewritten list under its own destination); the container paths of the
\* virtiofs and block-device lists are distinct, each is the destination of
\* exactly one rewritten mount, and the rewritten list holds nothing else.
C6_MountsPartitioned ==
    XfDone =>
        LET in == SelectSeq(xf.spec.mounts,
                            LAMBDA m : m.destination \notin IgnoreListPaths)
            m == xf.out.set_up_mounts_result
            oci == SelectSeq(xf.out.new_oci_mounts,
                             LAMBDA o : o.destination \notin IgnoreListPaths)
            typed == ContainerPaths(m.virtiofs) \o ContainerPaths(m.block_device)
            passthrough == SelectSeq(oci, LAMBDA o : Count(typed, o.destination) = 0)
        IN  /\ \A i \in 1..Len(in) :
                  LET d == in[i].destination IN
                  Count(Destinations(in), d) =
                        Count(GuestPaths(m.virtiofs), d)
                      + Count(GuestPaths(m.block_device), d)
                      + Count(GuestPaths(m.tmpfs), d)
                      + Count(Destinations(passthrough), d)
            /\ Len(in) = Len(m.virtiofs) + Len(m.block_device) + Len(m.tmpfs)
                          + Len(passthrough)
            /\ \A i \in 1..Len(passthrough) : Count(in, passthrough[i]) >= 1
            /\ \A i \in 1..Len(typed) :
                  /\ Count(typed, typed[i]) = 1
                  /\ Count(Destinations(oci), typed[i]) = 1
            /\ Len(oci) = Len(typed) + Len(passthrough)

\* A directory bind mount and a file bind mount were reclassified
C6_Witness ==
    /\ XfDone
    /\ Len(xf.spec.mounts) = 2
    /\ Len(xf.out.set_up_mounts_result.virtiofs) = 1
    /\ Len(xf.out.set_up_mounts_result.block_device) = 1

\* Every mount with its destination in list is in the rewritten mount list as
\* it was declared and has no entry in the virtiofs, block-device, tmpfs lists
PassedThroughUntouched(list) ==
    XfDone =>
        LET m == xf.out.set_up_mounts_result
            guest == GuestPaths(m.virtiofs) \o GuestPaths(m.block_device)
                     \o GuestPaths(m.tmpfs)
        IN  \A i \in 1..Len(xf.spec.mounts) :
                LET oci_mount == xf.spec.mounts[i] IN
                oci_mount.destination \in list =>
                    /\ Count(xf.out.new_oci_mounts, oci_mount)
                          = Count(xf.spec.mounts, oci_mount)
                    /\ Count(xf.out.spec_mounts, oci_mount)
                          = Count(xf.spec.mounts, oci_mount)
                    /\ Count(guest, oci_mount.destination) = 0

\* C7 as claimed: mounts at /proc, /sys, /dev, /etc/hostname, /etc/hosts,
\* /etc/resolv.conf and the engine's secret/run paths pass through unchanged
\* and add nothing to the typed lists, whatever their type or source.
C7_IgnoreListWithDev ==
    PassedThroughUntouched(IgnoreListPaths \cup {Abs(<<"dev">>)})

\* C7 as amended: that holds for /etc/hostname, /etc/hosts, /etc/resolv.conf,
\* /proc, /run/.containerenv, /run/secrets, /sys and /sys/fs/cgroup; a mount at
\* /dev is kept unchanged when it is a tmpfs mount, a bind mount of a directory
\* or a mount of another type than bind, and a bind mount of a regular file or
\* a block device at /dev becomes a block-device entry.
C7_IgnoreListWithoutDev ==
    /\ PassedThroughUntouched(IgnoreListPaths)
    /\ XfDone =>
          \A i \in 1..Len(xf.spec.mounts) :
              LET oci_mount == xf.spec.mounts[i] IN
              oci_mount.destination = Abs(<<"dev">>) =>
                  IF oci_mount.typ = "bind" /\ FileType(oci_mount.source) # "dir"
                  THEN /\ Count(xf.out.new_oci_mounts, oci_mount) = 0
                       /\ Count(GuestPaths(xf.out.set_up_mounts_result.block_device),
                                Abs(<<"dev">>)) >= 1
                  ELSE Count(xf.out.new_oci_mounts, oci_mount)
                          = Count(xf.spec.mounts, oci_mount)

\* A file and a directory bind-mounted at /etc/hosts and /proc passed through
C7_Witness ==
    /\ XfDone
    /\ \E i, j \in 1..Len(xf.spec.mounts) :
          /\ xf.spec.mounts[i].typ = "bind"
          /\ xf.spec.mounts[i].source = "/host/file"
          /\ xf.spec.mounts[i].destination = Abs(<<"etc", "hosts">>)
          /\ xf.spec.mounts[j].typ = "bind"
          /\ xf.spec.mounts[j].source = "/host/dir"
          /\ xf.spec.mounts[j].destination = Abs(<<"proc">>)
    /\ xf.out.new_oci_mounts = xf.spec.mounts

\* The names of virtio disks, in order
DiskNames == << "vda", "vdb", "vdc", "vdd", "vde", "vdf", "vdg", "vdh" >>

\* C8: the <disk> elements of the domain XML are the base image, then the
\* block-device mounts in the order of Mounts.block_device, then the cloud-init
\* ISO, and the k-th element's target is the k-th name of vda, vdb, ...
C8_DiskNamesInEmissionOrder ==
    XfDone =>
        LET disks == xf.out.disks
            block_device == xf.out.mounts.block_device
            n == Len(block_device)
        IN  /\ Len(disks) = n + 2
            /\ \A k \in 1..Len(disks) : disks[k].target = DiskNames[k]
            /\ disks[1].source = EphemeralImageInfo.path
            /\ \A k \in 1..n :
                  /\ disks[k + 1].source = block_device[k].path_in_container
                  /\ disks[k + 1].serial = BlockSerial(k - 1)
            /\ disks[n + 2].source = Abs(<<"crun-vm", "first-boot", "cloud-init.iso">>)

\* A base image, 2 block devices and the ISO got vda, vdb, vdc, vdd
C8_Witness ==
    /\ XfDone
    /\ Len(xf.out.mounts.block_device) = 2
    /\ [k \in 1..4 |-> xf.out.disks[k].target] = <<"vda", "vdb", "vdc", "vdd">>

TmpfsMounts(list) == SelectSeq(list, LAMBDA m : m.typ = "tmpfs")

\* C21 as stated: every tmpfs mount adds one entry to the tmpfs list, its
\* destination being the guest path, and the rewritten mount list holds no
\* mount for it.
C21_EveryTmpfsGuestOnly ==
    XfDone =>
        /\ GuestPaths(xf.out.set_up_mounts_result.tmpfs)
              = Destinations(TmpfsMounts(xf.spec.mounts))
        /\ TmpfsMounts(xf.out.new_oci_mounts) = <<>>
        /\ TmpfsMounts(xf.out.spec_mounts) = <<>>

\* The tmpfs mounts that set_up_mounts leaves to the container
TmpfsKept(list) ==
    SelectSeq(list, LAMBDA m : /\ m.typ = "tmpfs"
                               /\ \/ m.destination \in IgnoreListPaths
                                  \/ StartsWith(m.destination, Abs(<<"dev">>)))
TmpfsForGuest(list) ==
    SelectSeq(list, LAMBDA m : /\ m.typ = "tmpfs"
                               /\ m.destination \notin IgnoreListPaths
                               /\ ~StartsWith(m.destination, Abs(<<"dev">>)))

\* C21: every tmpfs mount whose destination is neither on the ignore list nor
\* /dev or below adds one entry to the tmpfs list, its destination being the
\* guest path, and is in no rewritten mount list; the tmpfs mounts at the other
\* destinations add no entry and stay in the rewritten mount list as declared.
C21_TmpfsGuestOnlyOutsideDev ==
    XfDone =>
        /\ GuestPaths(xf.out.set_up_mounts_result.tmpfs)
              = Destinations(TmpfsForGuest(xf.spec.mounts))
        /\ TmpfsMounts(xf.out.new_oci_mounts) = TmpfsKept(xf.spec.mounts)
        /\ TmpfsMounts(xf.out.spec_mounts) = TmpfsKept(xf.spec.mounts)

C21_Witness ==
    /\ XfDone
    /\ Destinations(TmpfsMounts(xf.spec.mounts))
          = <<Abs(<<"mnt", "data">>), Abs(<<"dev", "foo">>)>>
    /\ GuestPaths(xf.out.set_up_mounts_result.tmpfs) = <<Abs(<<"mnt", "data">>)>>
    /\ Len(xf.out.spec_mounts) = 1

-----------------------------------------------------------------------------
(* Properties of the XML merge (SpecMerge) *)

ChildElements(el) ==
    LET nodes == SelectSeq(el.nodes, LAMBDA n : n.kind = "element")
    IN  [i \in 1..Len(nodes) |-> nodes[i].el]

Texts(el) ==
    LET nodes == SelectSeq(el.nodes, LAMBDA n : n.kind = "text")
    IN  [i \in 1..Len(nodes) |-> nodes[i].text]

SameName(a, b) == a.name = b.name /\ a.ns = b.ns

NonBlankText(el) ==
    \E i \in 1..Len(Texts(el)) : \E j \in 1..Len(Texts(el)[i]) :
        Texts(el)[i][j] \notin {" ", "\n", "\t"}

RECURSIVE Merged(_, _, _)
Merged(out, base, overlay) ==
    LET base_children == ChildElements(base)
        overlay_children == ChildElements(overlay)
        out_children == ChildElements(out)
        unmatched == SelectSeq(overlay_children,
                         LAMBDA c : \A i \in 1..Len(base_children) :
                                        ~SameName(base_children[i], c))
    IN  /\ SameName(out, base)
        /\ overlay.attrs \subseteq out.attrs
        /\ out.attrs \subseteq base.attrs \cup overlay.attrs
        /\ \A a \in base.attrs :
              a \in out.attrs \/ \E o \in overlay.attrs : o[1] = a[1]
        /\ \A a, b \in out.attrs : a[1] = b[1] => a = b
        /\ Len(out_children) = Len(base_children) + Len(unmatched)
        /\ \A i \in 1..Len(base_children) :
              LET same == SelectSeq(overlay_children,
                              LAMBDA c : SameName(base_children[i], c))
              IN  IF same = <<>>
                  THEN out_children[i] = base_children[i]
                  ELSE \E j \in 1..Len(same) :
                          Merged(out_children[i], base_children[i], same[j])
        /\ \A i \in 1..Len(unmatched) :
              out_children[Len(base_children) + i] = unmatched[i]
        /\ Texts(out) = IF NonBlankText(overlay) THEN Texts(overlay) ELSE Texts(base)

\* C9: merge(base, overlay) has the base's name; its attributes are the
\* overlay's and those of the base the overlay does not set; its child
\* elements are every base child, in order, merged in the same way with a
\* same-named (tag and namespace) overlay child when there is one and as it
\* was otherwise, then every overlay child that has no same-named child in
\* the base, as it was; its text is the overlay's when that is not blank and
\* the base's otherwise.
C9_MergeKeepsBaseAddsOverlay ==
    mg.pc = "merged" => Merged(mg.out[1], mg.base, mg.overlay)

\* A base disk was merged with the overlay's disk, the base's <name> kept and
\* the overlay's <disk xmlns="x"> appended
C9_Witness ==
    /\ mg.pc = "merged"
    /\ Len(mg.base.nodes) = 2 /\ Len(mg.overlay.nodes) = 2
    /\ LET out == ChildElements(mg.out[1]) IN
        /\ Len(out) = 3
        /\ out[1].name = "disk" /\ out[1].ns = ""
        /\ out[1].attrs = {<<"type", "block">>, <<"device", "disk">>}
        /\ Len(out[1].nodes) = 2
        /\ out[2].name = "name"
        /\ out[3].ns = "x"
        /\ ChildElements(mg.base)[1].attrs = {<<"type", "file">>}

\* C30 as stated: merging the same overlay once more changes nothing,
\* merge(merge(b, o), o) = merge(b, o), for every base b and overlay o, also
\* when o has several sibling child elements with the same tag.
C30_MergeIdempotent ==
    mg.pc = "merged" /\ mg.merges >= 2 => mg.out[1] = mg.base

\* No element of the overlay, at any depth, has two child elements of the same
\* tag and namespace, or child elements next to text that is not blank
RECURSIVE PlainOverlay(_)
PlainOverlay(el) ==
    LET children == ChildElements(el) IN
    /\ \A i, j \in 1..Len(children) : i # j => ~SameName(children[i], children[j])
    /\ NonBlankText(el) => children = <<>>
    /\ \A i \in 1..Len(children) : PlainOverlay(children[i])

\* C30: merge(merge(b, o), o) = merge(b, o) for every base b and every overlay
\* o in which no element has two child elements of the same tag and namespace
\* and no element has both child elements and text that is not blank.
C30_MergeIdempotentPlainOverlay ==
    mg.pc = "merged" /\ mg.merges >= 2 /\ PlainOverlay(mg.overlay)
        => mg.out[1] = mg.base

\* The overlay's <disk> was merged into the base's and its <name> appended;
\* merging it once more has changed neither
C30_Witness ==
    /\ mg.pc = "merged" /\ mg.merges = 2
    /\ PlainOverlay(mg.overlay)
    /\ LET out == ChildElements(mg.out[1])
           overlay == ChildElements(mg.overlay)
       IN  /\ Len(overlay) = 2
           /\ overlay[1].name = "disk" /\ overlay[1].attrs = {<<"type", "file">>}
           /\ overlay[2].name = "name"
           /\ Len(out) = 2
           /\ out[1].attrs = {<<"type", "file">>, <<"device", "disk">>}
           /\ Len(out[1].nodes) = 2
           /\ out[2] = overlay[2]
    /\ mg.out[1] = mg.base

-----------------------------------------------------------------------------
(* Properties of the vCPU count (SpecVcpu) *)

\* C10: get_vcpu_count is quota / period rounded up when the quota is set and
\* greater than 0, the period is set and not 0 and their sum fits a u64, e.g.
\* 2 for quota 150000 and period 100000; it is the host's logical CPU count
\* when the quota is unset, 0 or negative, the period is unset or 0, or the
\* sum overflows; it is never 0.
C10_VcpuCountIsCeilOrHostCount ==
    vc.pc = "done" =>
        /\ vc.vcpu_count # 0
        /\ IF /\ vc.linux_cpu # <<>>
              /\ vc.linux_cpu[1].quota # <<>> /\ vc.linux_cpu[1].period # <<>>
              /\ vc.linux_cpu[1].quota[1] > 0 /\ vc.linux_cpu[1].period[1] # 0
              /\ vc.linux_cpu[1].quota[1] + vc.linux_cpu[1].period[1] <= 2^Bits - 1
           THEN LET quota == vc.linux_cpu[1].quota[1]
                    period == vc.linux_cpu[1].period[1]
                IN  /\ vc.vcpu_count =
                          (quota \div period) + (IF quota % period = 0 THEN 0 ELSE 1)
                    /\ (quota = 150000 /\ period = 100000) => vc.vcpu_count = 2
           ELSE vc.vcpu_count = vc.num_cpus

\* quota 150000 with period 100000 gave 2 vCPUs on a host of 3 CPUs
C10_Witness ==
    /\ vc.pc = "done"
    /\ vc.linux_cpu = <<[quota |-> <<150000>>, period |-> <<100000>>]>>
    /\ vc.num_cpus = 3
    /\ vc.vcpu_count = 2

-----------------------------------------------------------------------------
(* Properties of the first-boot configs (SpecFirstBoot) *)

FbDone(format) == fb.pc = "done" /\ fb.format = format /\ fb.out[1].ok

\* The items of the list at key of a mapping, none when the key is missing
HasList(mapping, key) ==
    get(mapping.entries, key) # <<>> /\ get(mapping.entries, key)[1].kind = "seq"

ItemsAt(mapping, key) ==
    IF HasList(mapping, key) THEN get(mapping.entries, key)[1].items ELSE <<>>

FbUserData ==
    IF fb.in_config = <<>> THEN Mapping(<<>>)
    ELSE IF fb.format = "ignition" THEN fb.in_config[1]
    ELSE IF fb.in_config[1].user_data.kind = "null" THEN Mapping(<<>>)
    ELSE fb.in_config[1].user_data

\* C11: the mounts list of the generated cloud-init user-data is the user's
\* list, then one [virtiofs-<i>, path, virtiofs, defaults, 0, 0] entry per
\* virtiofs share in index order, then one [tmpfs, path, tmpfs, defaults, 0, 0]
\* entry per tmpfs mount; its ssh_authorized_keys list is the user's list,
\* then the container's public key.
C11_CloudInitListsAppended ==
    (FbDone("cloud-init") /\ HasList(FbUserData, "mounts")) =>
        LET out == fb.out[1].user_data
            virtiofs == fb.config.mounts.virtiofs
            tmpfs == fb.config.mounts.tmpfs
        IN  /\ ItemsAt(out, "mounts") =
                  ItemsAt(FbUserData, "mounts")
                  \o [i \in 1..Len(virtiofs) |->
                        Strs(<<"virtiofs-" \o ToString(i - 1),
                               as_str(virtiofs[i].path_in_guest),
                               "virtiofs", "defaults", "0", "0">>)]
                  \o [i \in 1..Len(tmpfs) |->
                        Strs(<<"tmpfs", as_str(tmpfs[i].path_in_guest),
                               "tmpfs", "defaults", "0", "0">>)]
            /\ ItemsAt(out, "ssh_authorized_keys") =
                  Append(ItemsAt(FbUserData, "ssh_authorized_keys"),
                         Str(fb.config.container_public_key))

\* A user document with 2 mounts and 1 key got 2 virtiofs mounts, 1 tmpfs mount
\* and the container's key
C11_Witness ==
    /\ FbDone("cloud-init")
    /\ Len(ItemsAt(FbUserData, "mounts")) = 2
    /\ Len(ItemsAt(FbUserData, "ssh_authorized_keys")) = 1
    /\ Len(fb.config.mounts.virtiofs) = 2
    /\ Len(fb.config.mounts.tmpfs) = 1
    /\ Len(ItemsAt(fb.out[1].user_data, "mounts")) = 5
    /\ ItemsAt(fb.out[1].user_data, "mounts")[3] =
          Strs(<<"virtiofs-0", "/mnt/data", "virtiofs", "defaults", "0", "0">>)
    /\ Len(ItemsAt(fb.out[1].user_data, "ssh_authorized_keys")) = 2

RECURSIVE Kept(_, _)
RECURSIVE KeptItems(_, _)

\* Every key, value and list entry of the value was is in the value now,
\* unchanged, list entries in their order
Kept(was, now) ==
    IF was.kind = "map"
    THEN /\ now.kind = "map"
         /\ \A i \in 1..Len(was.entries) :
               /\ get(now.entries, was.entries[i].key) # <<>>
               /\ Kept(was.entries[i].value, get(now.entries, was.entries[i].key)[1])
    ELSE IF was.kind = "seq"
    THEN now.kind = "seq" /\ KeptItems(was.items, now.items)
    ELSE now = was

KeptItems(was, now) ==
    IF was = <<>> THEN TRUE
    ELSE IF now = <<>> THEN FALSE
    ELSE IF Kept(Head(was), Head(now)) THEN KeptItems(Tail(was), Tail(now))
    ELSE KeptItems(was, Tail(now))

\* The user's Ignition config without the storage.files records of /etc/hostname
WithoutHostnameFiles(user_data) ==
    LET storage == get(user_data.entries, "storage")[1]
        files == get(storage.entries, "files")[1]
        others == SelectSeq(files.items,
                      LAMBDA f : ~(f.kind = "map"
                                   /\ get(f.entries, "path") = <<Str("/etc/hostname")>>))
    IN  IF /\ get(user_data.entries, "storage") # <<>> /\ storage.kind = "map"
           /\ get(storage.entries, "files") # <<>> /\ files.kind = "seq"
        THEN Mapping(insert(user_data.entries, "storage",
                 Mapping(insert(storage.entries, "files", Sequence(others)))))
        ELSE user_data

\* C12: whatever the user's cloud-init user-data or Ignition config holds is
\* in the generated document unchanged, but for the Ignition storage.files
\* records of /etc/hostname when a hostname is set; so a user's cloud-init
\* hostname, preserve_hostname, password and chpasswd.expire stay as they were.
C12_GeneratedEntriesAdditive ==
    (fb.pc = "done" /\ fb.out[1].ok) =>
        Kept(IF fb.format = "ignition" /\ fb.config.hostname # <<>>
             THEN WithoutHostnameFiles(FbUserData) ELSE FbUserData,
             fb.out[1].user_data)

\* The runcmd items that link the guest paths of the block devices that are
\* not UnderDev to their disks, the disk of index i found by Serial(i)
SymlinkCmds(UnderDev(_), Serial(_)) ==
    LET dev == fb.config.mounts.block_device
        cmds(i) ==
            IF UnderDev(dev[i].path_in_guest) THEN <<>>
            ELSE << Strs(<<"mkdir", "-p", as_str(parent(dev[i].path_in_guest)[1])>>),
                    Strs(<<"ln", "--symbolic",
                           "/dev/disk/by-id/virtio-" \o Serial(i - 1),
                           as_str(dev[i].path_in_guest)>>) >>
    IN  Concat([i \in 1..Len(dev) |-> cmds(i)])

\* The storage.links items of the same block devices
SymlinkLinks(UnderDev(_), Serial(_)) ==
    LET dev == fb.config.mounts.block_device
        link(i) ==
            IF UnderDev(dev[i].path_in_guest) THEN <<>>
            ELSE << Object(<<"path", "overwrite", "target", "hard">>,
                           <<Str(as_str(dev[i].path_in_guest)), Bool(TRUE),
                             Str("/dev/disk/by-id/virtio-" \o Serial(i - 1)),
                             Bool(FALSE)>>) >>
    IN  Concat([i \in 1..Len(dev) |-> link(i)])

\* The udev rules of the block devices that are UnderDev, plain and as the
\* data URL of Ignition encodes them
UdevRules(UnderDev(_), Serial(_), encoded) ==
    LET dev == fb.config.mounts.block_device
        rule(i) ==
            IF ~UnderDev(dev[i].path_in_guest) THEN ""
            ELSE IF encoded
            THEN "ENV%7BID_SERIAL%7D%3D%3D%22" \o Serial(i - 1)
                 \o "%22%2C%20SYMLINK%2B%3D%22" \o file_name(dev[i].path_in_guest)
                 \o "%22%0A"
            ELSE "ENV{ID_SERIAL}==\"" \o Serial(i - 1)
                 \o "\", SYMLINK+=\"" \o file_name(dev[i].path_in_guest) \o "\"\n"
    IN  ConcatStr([i \in 1..Len(dev) |-> rule(i)])

FbUserStorage ==
    IF get(FbUserData.entries, "storage") # <<>>
       /\ get(FbUserData.entries, "storage")[1].kind = "map"
    THEN get(FbUserData.entries, "storage")[1] ELSE Mapping(<<>>)

UdevRulesPath == "/etc/udev/rules.d/99-crun-qemu.rules"

\* The generated configs name every block device that is UnderDev by a udev
\* rule and every other one by a symlink, and in no other way
BlockDevicesNamed(UnderDev(_), Serial(_)) ==
    /\ FbDone("cloud-init") =>
          LET out == fb.out[1].user_data
              rules == UdevRules(UnderDev, Serial, FALSE)
          IN  /\ ItemsAt(out, "runcmd") =
                    ItemsAt(FbUserData, "runcmd") \o SymlinkCmds(UnderDev, Serial)
                    \o (IF rules = "" THEN <<>> ELSE <<Str("udevadm trigger")>>)
              /\ ItemsAt(out, "write_files") =
                    ItemsAt(FbUserData, "write_files")
                    \o (IF rules = "" THEN <<>>
                        ELSE <<Object(<<"path", "content">>,
                                      <<Str(UdevRulesPath), Str(rules)>>)>>)
    /\ FbDone("ignition") =>
          LET storage == get(fb.out[1].user_data.entries, "storage")[1]
              rules == UdevRules(UnderDev, Serial, TRUE)
          IN  /\ ItemsAt(storage, "links") =
                    ItemsAt(FbUserStorage, "links") \o SymlinkLinks(UnderDev, Serial)
              /\ SelectSeq(ItemsAt(storage, "files"),
                           LAMBDA f : get(f.entries, "path") = <<Str(UdevRulesPath)>>)
                    = (IF rules = "" THEN <<>>
                       ELSE <<ignition_file(UdevRulesPath, "data:," \o rules)>>)

QemuBlockSerial(i) == "crun-qemu-block-" \o ToString(i)

DirectlyInDev(path) == parent(path) = <<Abs(<<"dev">>)>>

\* C22 as stated: a block device whose guest path is below /dev, at any depth,
\* gets a udev rule and no symlink; every other one gets a symlink (mkdir and ln
\* in cloud-init's runcmd, a storage.links entry in Ignition) and no udev rule.
C22_UdevRuleBelowDev ==
    BlockDevicesNamed(LAMBDA path : Len(path) > 2 /\ StartsWith(path, Abs(<<"dev">>)),
                      QemuBlockSerial)

\* C22: a block device whose guest path is directly in /dev (its parent
\* directory is /dev) gets a udev rule and no symlink; every other one, those
\* deeper below /dev included, gets a symlink and no udev rule.
C22_UdevRuleDirectlyInDev ==
    BlockDevicesNamed(DirectlyInDev, QemuBlockSerial)

C22_Witness ==
    /\ FbDone("cloud-init")
    /\ GuestPaths(fb.config.mounts.block_device)
          = <<Abs(<<"dev", "disk", "data">>), Abs(<<"dev", "foo">>), Abs(<<"dev", "vol">>)>>
    /\ ItemsAt(fb.out[1].user_data, "runcmd") =
          << Strs(<<"mkdir", "-p", "/dev/disk">>),
             Strs(<<"ln", "--symbolic", "/dev/disk/by-id/virtio-crun-qemu-block-0",
                    "/dev/disk/data">>),
             Str("udevadm trigger") >>
    /\ Len(ItemsAt(fb.out[1].user_data, "write_files")) = 1

\* The serial that the domain XML gives to the disk of block device i: the
\* first disk is the VM image
DomainSerial(i) == fb.domain[1].disks[i + 2].serial

PrefixedSerial(S, i) == S \o "-block-" \o ToString(i)

\* C24: once the domain XML and the first-boot config are generated, there is
\* one prefix S such that, for every block device i, the serial of its disk in
\* the domain XML is S-block-i, its udev rule matches ID_SERIAL == S-block-i
\* and its symlink points at /dev/disk/by-id/virtio-S-block-i.
C24_SameSerialOnBothSides ==
    fb.pc = "done" /\ fb.domain # <<>> =>
        \E S \in {"crun-vm", "crun-qemu"} :
            /\ \A i \in 0..(Len(fb.config.mounts.block_device) - 1) :
                  DomainSerial(i) = PrefixedSerial(S, i)
            /\ BlockDevicesNamed(DirectlyInDev, LAMBDA i : PrefixedSerial(S, i))

\* The directory bind mounts of the original spec that are not passed through
SharedDirMounts ==
    SelectSeq(fb.spec.mounts,
              LAMBDA m : /\ m.typ = "bind"
                         /\ FileType(m.source) = "dir"
                         /\ m.destination \notin TARGETS_TO_IGNORE
                         /\ ~StartsWith(m.destination, Abs(<<"dev">>)))

\* The mounts of the rewritten spec below /crun-vm/mounts/virtiofs
RedirectedDirMounts ==
    SelectSeq(fb.spec_mounts,
              LAMBDA m : StartsWith(m.destination,
                                    Abs(<<"crun-vm", "mounts", "virtiofs">>)))

VirtiofsTag(i) == "virtiofs-" \o ToString(i)

FbUserSystemd ==
    IF get(FbUserData.entries, "systemd") # <<>>
       /\ get(FbUserData.entries, "systemd")[1].kind = "map"
    THEN get(FbUserData.entries, "systemd")[1] ELSE Mapping(<<>>)

\* C25: the i-th directory bind mount that is not passed through is mounted in
\* the container at /crun-vm/mounts/virtiofs/<i>, the domain XML exports that
\* directory under the tag virtiofs-<i>, the cloud-init mounts entry and the
\* Ignition mount unit for it mount the tag virtiofs-<i> at the mount's original
\* destination, and the tags of distinct shares differ.
C25_VirtiofsTagsAgree ==
    fb.pc = "done" /\ fb.domain # <<>> =>
        LET shares == SharedDirMounts
            n == Len(shares)
            out == fb.out[1].user_data
        IN  /\ RedirectedDirMounts =
                  [i \in 1..n |-> [shares[i] EXCEPT !.destination = VirtiofsPath(i - 1)]]
            /\ fb.domain[1].filesystems =
                  [i \in 1..n |-> [source |-> VirtiofsPath(i - 1),
                                   target |-> VirtiofsTag(i - 1)]]
            /\ fb.format = "cloud-init" =>
                  SelectSeq(ItemsAt(out, "mounts"),
                            LAMBDA e : /\ e.kind = "seq" /\ Len(e.items) = 6
                                       /\ e.items[3] = Str("virtiofs"))
                  = [i \in 1..n |->
                        Strs(<<VirtiofsTag(i - 1), as_str(shares[i].destination),
                               "virtiofs", "defaults", "0", "0">>)]
            /\ fb.format = "ignition" =>
                  LET units == ItemsAt(get(out.entries, "systemd")[1], "units")
                      user == Len(ItemsAt(FbUserSystemd, "units"))
                  IN  /\ Len(units) >= user + n
                      /\ SubSeq(units, user + 1, user + n) =
                            [i \in 1..n |->
                                Object(<<"name", "enabled", "contents">>,
                                       <<Str(systemd_unit_file_name(shares[i].destination)),
                                         Bool(TRUE),
                                         Str("[Mount]\nWhat=" \o VirtiofsTag(i - 1)
                                             \o "\nWhere=" \o as_str(shares[i].destination)
                                             \o "\nType=virtiofs\n\n[Install]\n"
                                             \o "WantedBy=local-fs.target\n")>>)]
            /\ \A i, j \in 1..Len(fb.domain[1].filesystems) :
                  i # j => fb.domain[1].filesystems[i].target
                           # fb.domain[1].filesystems[j].target

\* The second of three directory mounts, the first one passed through, is
\* share 0 in the container, in the domain XML and in the guest
C25_Witness ==
    /\ fb.pc = "done" /\ fb.domain # <<>>
    /\ fb.format = "ignition"
    /\ Destinations(fb.spec.mounts)
          = <<Abs(<<"dev", "shm">>), Abs(<<"proc">>), Abs(<<"mnt", "data">>)>>
    /\ Destinations(fb.spec_mounts)[3] = VirtiofsPath(0)
    /\ fb.domain[1].filesystems
          = <<[source |-> VirtiofsPath(0), target |-> "virtiofs-0"]>>
    /\ ItemsAt(get(fb.out[1].user_data.entries, "systemd")[1], "units") # <<>>

-----------------------------------------------------------------------------
(* Properties of find_single_file_in_dirs (SpecFindFile) *)

\* The regular files directly in the directories, but for .dockerinit and
\* .dockerenv of the root, as <<directory, entry>> indexes
CountedFiles ==
    { de \in (1..Len(ut.dirs)) \X (1..MaxEntries + 1) :
        /\ ut.dirs[de[1]].is_dir
        /\ de[2] <= Len(ut.dirs[de[1]].entries)
        /\ ut.dirs[de[1]].entries[de[2]].is_file
        /\ ~(de[1] = 1 /\ ut.dirs[de[1]].entries[de[2]].file_name
                              \in {".dockerinit", ".dockerenv"}) }

\* C13: find_single_file_in_dirs fails with "more than one file found" when the
\* directories hold 2 or more regular files that are not ignored, with "no
\* files found" when they hold none, and returns the file's path when they
\* hold exactly one.
C13_FindSingleFile ==
    ut.pc = "done" =>
        LET n == Cardinality(CountedFiles)
            out == ut.out[1]
        IN  /\ n >= 2 => ~out.ok /\ out.error = "more than one file found"
            /\ n = 0 => ~out.ok /\ out.error = "no files found"
            /\ n = 1 =>
                  /\ out.ok
                  /\ \E de \in CountedFiles :
                        Concat(components(out.candidate[1])) =
                            IF de[1] = 1
                            THEN <<"/", "rootfs", ut.dirs[1].entries[de[2]].file_name>>
                            ELSE <<"/", "rootfs", "disk",
                                   ut.dirs[2].entries[de[2]].file_name>>

\* The root holds .dockerenv and the directory disk, and disk/ the one image
C13_Witness ==
    /\ ut.pc = "done"
    /\ ut.out[1].ok
    /\ \E i \in 1..Len(ut.dirs[1].entries) : ut.dirs[1].entries[i].file_name = ".dockerenv"
    /\ ut.out[1].candidate = <<Abs(<<"rootfs", "disk", "image.qcow2">>)>>

-----------------------------------------------------------------------------
(* Claims about create()'s policy checks and CustomOptions::from_spec *)

PrivilegedContainer == any_is_cap_sys_admin(co.spec.capabilities)
PersistentWithReadOnlyRoot == co.args.persistent /\ co.spec.root.readonly
VfioUnderKubernetes ==
    co.env = "Kubernetes" /\ (co.args.vfio_pci # <<>> \/ co.args.vfio_pci_mdev # <<>>)
EmulatedBootableContainer == co.args.emulated /\ co.has_bootc_install

\* create has not failed and is at or past its first change to the file system
CoNotRejected == co.pc \in {"create_priv_dir", "set_up"}

\* C14: a create with a policy violation (CAP_SYS_ADMIN in a capability set,
\* --persistent with a read-only root, a VFIO option under Kubernetes, --emulated
\* with a bootable container) fails, and has changed nothing in the file system.
C14_PolicyViolationsRejectedFirst ==
    co.pc # "idle"
    /\ (PrivilegedContainer \/ PersistentWithReadOnlyRoot
        \/ VfioUnderKubernetes \/ EmulatedBootableContainer)
    => ~CoNotRejected /\ ~co.fs_mutated

\* from_spec has returned, with an error or with the options
CoFromSpecReturned ==
    \/ co.pc \in {"is_bootc_container", "create_priv_dir", "set_up"}
    \/ co.pc = "failed" /\ ~PrivilegedContainer
       /\ co.error \notin {"bootc containers are only supported with Podman",
                            "--emulated is incompatible with bootable containers"}

CoFromSpecOk == co.pc \in {"is_bootc_container", "create_priv_dir", "set_up"}

CoVfioPaths == co.args.vfio_pci \o co.args.vfio_pci_mdev
CoOtherPaths ==
    blockdev_paths(co.args) \o co.args.cloud_init \o co.args.ignition
    \o co.args.merge_libvirt_xml

\* C17 as stated: under every engine, from_spec rejects a relative path in any
\* path-valued option.
C17_AbsoluteUnderEveryEngine ==
    CoFromSpecReturned /\ ~all_are_absolute(CoOtherPaths \o CoVfioPaths)
    => ~CoFromSpecOk

\* C17: under Docker from_spec rejects a relative path in any path-valued
\* option, under Kubernetes in --blockdev, --cloud-init, --ignition and
\* --merge-libvirt-xml (the VFIO options are not allowed there at all); under
\* Other it never rejects a path for being relative.
C17_AbsoluteUnderDockerAndKubernetes ==
    CoFromSpecReturned =>
        /\ co.env = "Docker" /\ ~all_are_absolute(CoOtherPaths \o CoVfioPaths)
            => co.error = "paths must be absolute"
        /\ co.env = "Kubernetes" /\ ~all_are_absolute(CoOtherPaths)
            => co.error = "paths must be absolute"
        /\ co.env = "Kubernetes" /\ all_are_absolute(CoOtherPaths)
           /\ CoVfioPaths # <<>>
            => co.error = "options --vfio-pci and --vfio-pci-mdev are not allowed"
        /\ co.env = "Other" => co.error # "paths must be absolute"
        /\ co.env = "Other" /\ (\A i \in 1..Len(CoVfioPaths) : CoVfioPaths[i] # CoVfioInvalid)
            => CoFromSpecOk

C17_Witness ==
    /\ co.env = "Docker" /\ co.args.cloud_init = <<CoRelative>>
    /\ co.args.vfio_pci = <<CoVfio>>
    /\ co.pc = "failed" /\ co.error = "paths must be absolute"

\* The paths that from_spec maps under Kubernetes, before and after
CoPathsInContainer == CoOtherPaths
CoPathsInHost ==
    blockdev_paths(co.custom_options) \o co.custom_options.cloud_init
    \o co.custom_options.ignition \o co.custom_options.merge_libvirt_xml

\* C20: under Kubernetes each absolute path of the options is mapped by the
\* mount with a source that has the longest destination among those the path
\* starts with, wherever it is in the mount list, its destination replaced by
\* its source; from_spec fails when a path has no such mount or the host path
\* does not exist.
C20_LongestPrefixMount ==
    /\ co.env = "Kubernetes" /\ CoFromSpecReturned
    /\ all_are_absolute(CoPathsInContainer) /\ CoVfioPaths = <<>>
    => LET expected == [i \in 1..Len(CoPathsInContainer) |->
                          path_in_container_into_path_in_host_longest(
                              co.spec, CoPathsInContainer[i], co.host_paths)]
       IN  IF \A i \in 1..Len(expected) : expected[i].ok
           THEN CoFromSpecOk
                /\ CoPathsInHost = [i \in 1..Len(expected) |-> expected[i].path]
           ELSE co.error = "can't find"

-----------------------------------------------------------------------------
(* Claims about main *)

RtReturned == rt.pc = "returned"
RtCommand == parse_command(rt.raw_args)
CrunOutcome ==
    IF rt.status = "success" THEN "Ok"
    ELSE IF rt.status = "failure" THEN "crun failed" ELSE "spawn failed"
ForwardedUnchanged == rt.invoked = <<rt.raw_args>> /\ rt.result = CrunOutcome

\* C15 as stated: for every command other than create, delete and exec, main
\* runs crun with exactly the argument vector it received and returns crun's
\* outcome.
C15_AllOthersForwarded ==
    RtReturned /\ RtCommand \notin {"create", "delete", "exec"} => ForwardedUnchanged

\* C15: for start, state and kill, main runs crun once, with exactly the
\* argument vector it received, and returns crun's outcome; for every other
\* command that is not create, delete or exec, main does not run crun and fails
\* with "Unknown command".
C15_StartStateKillForwarded ==
    RtReturned =>
        /\ RtCommand \in {"start", "state", "kill"} => ForwardedUnchanged
        /\ RtCommand \notin {"create", "delete", "exec", "start", "state", "kill"}
            => rt.invoked = <<>> /\ rt.result = "Unknown command"

C15_Witness ==
    /\ RtReturned /\ RtCommand = "kill" /\ Head(rt.raw_args) = "--root"
    /\ rt.invoked = <<rt.raw_args>> /\ rt.result = "crun failed"

-----------------------------------------------------------------------------
(* Claims about exec's build_command *)

ExReturned == ex.pc = "returned"

\* clap rejects the arguments: --timeout is no u32, or --container with --as
ExUsage ==
    \/ ex.given.timeout # <<>> /\ parse_u32(ex.given.timeout[1]) = <<>>
    \/ ex.given.container /\ ex.given.user # <<>>

\* --timeout, else CRUN_VM_EXEC_TIMEOUT, else 0, as a decimal number
ExTimeoutArg ==
    IF ex.given.timeout # <<>> THEN ToString(parse_u32(ex.given.timeout[1])[1])
    ELSE IF ex.env # <<>> THEN ToString(parse_u32(ex.env[1])[1])
    ELSE "0"

ExEnvInvalid ==
    ex.given.timeout = <<>> /\ ex.env # <<>> /\ parse_u32(ex.env[1]) = <<>>

ExUserArg == IF ex.given.user = <<>> THEN "root" ELSE ex.given.user[1]

\* The args of the exec process for the command cmd
ExExpected(cmd) ==
    IF ex.given.container
    THEN (IF cmd = <<>> THEN <<"/bin/bash">> ELSE cmd)
    ELSE <<"/crun-vm/exec.sh", ExTimeoutArg, ExUserArg>> \o cmd

\* C16 as stated: with --container the args are the given command verbatim, or
\* [/bin/bash] when it is empty; without --container they are [/crun-vm/exec.sh,
\* timeout, user] and the command, an invalid CRUN_VM_EXEC_TIMEOUT being an error
\* when it is what gives the timeout.
C16_CommandVerbatim ==
    ExReturned /\ ~ExUsage =>
        IF ~ex.given.container /\ ExEnvInvalid
        THEN ~ex.out.ok
        ELSE ex.out.ok /\ ex.out.command = ExExpected(ex.given.command)

\* The command without the empty string it may start with
ExCommandGiven ==
    IF ex.given.command # <<>> /\ Head(ex.given.command) = ""
    THEN Tail(ex.given.command) ELSE ex.given.command

\* C16: build_command fails when --timeout is not given and
\* CRUN_VM_EXEC_TIMEOUT is set to an invalid value, with or without
\* --container.  Otherwise, with the command being the given one less an empty
\* first argument: with --container the args are that command, or [/bin/bash]
\* when it is empty; without --container they are [/crun-vm/exec.sh, timeout,
\* user] followed by that command, the user being the --as value (default root)
\* and the timeout the --timeout value, else the environment value, else 0.
C16_BuildCommand ==
    ExReturned /\ ~ExUsage =>
        IF ExEnvInvalid
        THEN ~ex.out.ok
        ELSE ex.out.ok /\ ex.out.command = ExExpected(ExCommandGiven)

C16_Witness ==
    /\ ExReturned /\ ex.out.ok
    /\ ex.given.timeout = <<"007">> /\ ex.env = <<"60">>
    /\ ex.given.user = <<"fedora">> /\ ex.given.command = <<"", "ls">>
    /\ ex.out.command = <<"/crun-vm/exec.sh", "7", "fedora", "ls">>

-----------------------------------------------------------------------------
(* Claims about set_up_security and adjust_container_rlimits_and_resources *)

\* The seccomp syscall rule list of a spec, empty when it has none
SeccompRules(spec) ==
    IF spec.linux.seccomp = <<>> \/ spec.linux.seccomp[1].syscalls = <<>> THEN <<>>
    ELSE spec.linux.seccomp[1].syscalls[1]

SpSecuritySetUp == sp.pc \in {"adjust_container_rlimits_and_resources", "adjusted"}

Rlimits(spec) == IF spec.process.rlimits = <<>> THEN <<>> ELSE spec.process.rlimits[1]
Nofile(rlimits) == SelectSeq(rlimits, LAMBDA rl : rl.typ = "RLIMIT_NOFILE")
NotNofile(rlimits) == SelectSeq(rlimits, LAMBDA rl : rl.typ # "RLIMIT_NOFILE")

\* C19: after adjust_container_rlimits_and_resources the rlimits hold exactly
\* one RLIMIT_NOFILE entry, with soft = hard = 262144, and the other entries are
\* those of the input, whether it declared rlimits or not.
C19_OneNofileRlimit ==
    sp.pc = "adjusted" =>
        /\ Nofile(Rlimits(sp.spec)) =
               <<[typ |-> "RLIMIT_NOFILE", hard |-> 262144, soft |-> 262144]>>
        /\ NotNofile(Rlimits(sp.spec)) = NotNofile(Rlimits(sp.input))

-----------------------------------------------------------------------------
(* Claims about concurrent create invocations (SpecConcurrent) *)

OneTimeSteps == {"overlay_image", "ssh_keygen", "first_boot", "domain_xml"}

\* C29: of the create invocations of one container that run at the same time,
\* in any interleaving, at most one observes is_first_create = true; each
\* one-time step (overlay image, SSH key generation, first-boot configs, domain
\* XML) is executed by at most one of them, and only by the one that observed
\* true.
C29_OneFirstCreateAmongConcurrent ==
    /\ Cardinality({p \in CcProcs : cc.proc[p].observed
                                     /\ cc.proc[p].is_first_create}) <= 1
    /\ \A step \in OneTimeSteps :
          Cardinality({p \in CcProcs : step \in cc.proc[p].ran}) <= 1
    /\ \A p \in CcProcs : cc.proc[p].ran # {} => cc.proc[p].is_first_create
    /\ \A step \in OneTimeSteps : cc.host[step] <= 1

\* One invocation is in the middle of the one-time steps; the other one ran
\* is_first_create after it, got false, and has overtaken it
C29_Witness ==
    \E p, q \in CcProcs :
        /\ p # q
        /\ cc.proc[p].observed /\ cc.proc[p].is_first_create
        /\ cc.proc[p].pc = "set_up_first_boot_config"
        /\ cc.proc[p].ran = {"overlay_image"}
        /\ cc.proc[q].observed /\ ~cc.proc[q].is_first_create
        /\ cc.proc[q].pc = "done"
        /\ cc.proc[q].ran = {}

====
